---------------------------- MODULE Spec2Model ----------------------------
(***************************************************************************)
(* A model of the Game Boy emulator core: the memory bus (src/memory/      *)
(* mmu.py), the CPU and its register file (src/cpu/cpu.py), the PPU mode   *)
(* machine (src/gpu/ppu.py), the APU frame sequencer (src/apu/apu.py), the *)
(* joypad (src/input/joypad.py) and the interrupt handler, timer and tick  *)
(* loop (src/core/emulator.py).                                            *)
(*                                                                         *)
(* Python integers are unbounded, so registers that the code never masks   *)
(* (PC, SP) are plain integers here too.  Python lists are modelled as     *)
(* functions whose domain holds the indices of the nonzero elements.       *)
(***************************************************************************)
EXTENDS Integers, Sequences, FiniteSets, TLC

VARIABLES
    memory,      \* the Memory object
    registers,   \* cpu.registers
    ime,         \* cpu.ime
    halted,      \* cpu.halted
    ppu,         \* the PPU mode machine: mode, mode_clock, line
    timer,       \* Timer: div_counter, tima_counter
    apu,         \* APU: master_enable, frame_timer, frame_sequencer
    joypad,      \* Joypad: selection flags and pressed keys
    emu,         \* GameboyEmulator: running, paused, frame_count, cycle_count, frame_cycles
    at,          \* where the host is: "idle", or "loop" inside run_frame
    raised,      \* the exception the last host call ended with, "None" if it returned
    ev,          \* what the last tick-loop iteration did (observation)
    obs,         \* cycle sums between VBlank entries (observation)
    last_op,     \* the last bus or register operation applied (observation)
    last_write   \* per address, the value of the most recent write_byte to it (observation)

vars == <<memory, registers, ime, halted, ppu, timer, apu, joypad, emu, at,
          raised, ev, obs, last_op, last_write>>

-----------------------------------------------------------------------------
(* Bounds of the model.                                                    *)

\* run_frame is no longer called once this many T-cycles have elapsed.
MaxCycles == 100000

-----------------------------------------------------------------------------
(* Sizes of the Python lists.                                              *)

RomLen == 2097152
IoLen == 128

-----------------------------------------------------------------------------
(* Integer helpers for Python's bit operators.                             *)

Pow2(n) == 2 ^ n

\* (x >> n) & 1
Bit(x, n) == (x \div Pow2(n)) % 2

\* x | (1 << n)
SetBit(x, n) == IF Bit(x, n) = 1 THEN x ELSE x + Pow2(n)

\* x & ~(1 << n)
ClearBit(x, n) == IF Bit(x, n) = 1 THEN x - Pow2(n) ELSE x

\* Python lists of zeros, sparse: only nonzero elements are stored.
Zeros == [j \in {} |-> 0]

Rd(arr, i) == IF i \in DOMAIN arr THEN arr[i] ELSE 0

Wr(arr, i, v) ==
    IF v = 0
    THEN [j \in (DOMAIN arr) \ {i} |-> arr[j]]
    ELSE [j \in (DOMAIN arr) \cup {i} |-> IF j = i THEN v ELSE arr[j]]

\* list[i] for a list of length len, with Python's negative indices
PyIndex(arr, len, i) == Rd(arr, IF i < 0 THEN i + len ELSE i)

-----------------------------------------------------------------------------
(* Memory (src/memory/mmu.py)                                              *)

\* Memory._init_io_registers
InitIo ==
    [j \in {0, 2, 7, 15, 16, 17, 18, 19, 20, 64, 71, 72, 73} |->
        CASE j = 0  -> 255      \* P1   0xFF
          [] j = 2  -> 126      \* SC   0x7E
          [] j = 7  -> 248      \* TAC  0xF8
          [] j = 15 -> 225      \* IF   0xE1
          [] j = 16 -> 128      \* NR10 0x80
          [] j = 17 -> 191      \* NR11 0xBF
          [] j = 18 -> 243      \* NR12 0xF3
          [] j = 19 -> 255      \* NR13 0xFF
          [] j = 20 -> 191      \* NR14 0xBF
          [] j = 64 -> 145      \* LCDC 0x91
          [] j = 71 -> 252      \* BGP  0xFC
          [] j = 72 -> 255      \* OBP0 0xFF
          [] j = 73 -> 255]     \* OBP1 0xFF

\* Memory.__init__
NewMemory ==
    [rom |-> Zeros, wram |-> Zeros, vram |-> Zeros, oam |-> Zeros,
     hram |-> Zeros, io |-> InitIo, ie_register |-> 0,
     boot_rom |-> Zeros, boot_loaded |-> FALSE, boot_rom_enabled |-> TRUE,
     cart_ram |-> Zeros, cart_ram_len |-> 0, cart_ram_enabled |-> FALSE,
     mbc_type |-> "None", rom_bank |-> 1, ram_bank |-> 0, ram_enabled |-> FALSE]

\* Memory._read_rom_bank
ReadRomBank(m, address) ==
    IF m.mbc_type = "ROM_ONLY"
    THEN IF address < RomLen THEN Rd(m.rom, address) ELSE 255
    ELSE LET rom_address == (m.rom_bank - 1) * 16384 + (address - 16384)
         IN IF rom_address < RomLen THEN Rd(m.rom, rom_address) ELSE 255

\* Memory._read_cart_ram
ReadCartRam(m, address) ==
    IF ~m.cart_ram_enabled \/ m.cart_ram_len = 0
    THEN 255
    ELSE LET ram_address == (address - 40960) + m.ram_bank * 8192
         IN IF ram_address < m.cart_ram_len THEN Rd(m.cart_ram, ram_address) ELSE 255

\* Memory.read_byte
ReadByte(m, address) ==
    IF address < 256 /\ m.boot_rom_enabled /\ m.boot_loaded
        THEN PyIndex(m.boot_rom, 256, address)
    ELSE IF address < 16384 THEN PyIndex(m.rom, RomLen, address)     \* < 0x4000
    ELSE IF address < 32768 THEN ReadRomBank(m, address)             \* < 0x8000
    ELSE IF address < 40960 THEN Rd(m.vram, address - 32768)         \* < 0xA000
    ELSE IF address < 49152 THEN ReadCartRam(m, address)             \* < 0xC000
    ELSE IF address < 57344 THEN Rd(m.wram, address - 49152)         \* < 0xE000
    ELSE IF address < 65024 THEN Rd(m.wram, address - 57344)         \* < 0xFE00 echo
    ELSE IF address < 65184 THEN Rd(m.oam, address - 65024)          \* < 0xFEA0
    ELSE IF address < 65280 THEN 255                                 \* < 0xFF00
    ELSE IF address < 65408 THEN Rd(m.io, address - 65280)           \* < 0xFF80
    ELSE IF address < 65535 THEN Rd(m.hram, address - 65408)         \* < 0xFFFF
    ELSE IF address = 65535 THEN m.ie_register
    ELSE 255

\* Memory._handle_ram_enable
HandleRamEnable(m, address, value) ==
    IF m.mbc_type \in {"MBC1", "MBC3"}
    THEN LET en == (value % 16) = 10
         IN [m EXCEPT !.ram_enabled = en,
                      !.cart_ram_len = IF en /\ m.cart_ram_len = 0 THEN 8192
                                       ELSE m.cart_ram_len]
    ELSE m

\* Memory._handle_rom_bank_change
HandleRomBankChange(m, address, value) ==
    IF m.mbc_type \in {"MBC1", "MBC2", "MBC3", "MBC5"}
    THEN LET bank == value % 32
         IN [m EXCEPT !.rom_bank = IF bank = 0 THEN 1 ELSE bank]
    ELSE m

\* Memory._handle_ram_bank_change
HandleRamBankChange(m, address, value) ==
    IF m.mbc_type \in {"MBC1", "MBC3"}
    THEN [m EXCEPT !.ram_bank = value % 4]
    ELSE m

\* Mutant: the mode-select write lands in the ROM array.
HandleModeSelect_IntoRom(m, address, value) ==
    [m EXCEPT !.rom = Wr(m.rom, address, value)]

\* Memory._handle_mode_select
HandleModeSelect(m, address, value) == m

\* Memory._write_cart_ram
WriteCartRam(m, address, value) ==
    IF ~m.cart_ram_enabled \/ m.cart_ram_len = 0
    THEN m
    ELSE LET ram_address == (address - 40960) + m.ram_bank * 8192
         IN IF ram_address < m.cart_ram_len
            THEN [m EXCEPT !.cart_ram = Wr(m.cart_ram, ram_address, value)]
            ELSE m

\* Mutant: any nonzero value written to 0xFF50 disables the boot ROM.
WriteIoRegister_AnyNonzero(m, address, value) ==
    IF address = 65360
        THEN IF value # 0 THEN [m EXCEPT !.boot_rom_enabled = FALSE] ELSE m
    ELSE IF address = 65280 THEN m
    ELSE IF address = 65284
        THEN [m EXCEPT !.io = Wr(m.io, address - 65280, 0)]
    ELSE IF address = 65348 THEN m
    ELSE [m EXCEPT !.io = Wr(m.io, address - 65280, value)]

\* Memory._write_io_register
WriteIoRegister(m, address, value) ==
    IF address = 65360                                   \* 0xFF50 boot ROM disable
        THEN IF value % 2 = 1 THEN [m EXCEPT !.boot_rom_enabled = FALSE] ELSE m
    ELSE IF address = 65280 THEN m                       \* 0xFF00 joypad: not stored
    ELSE IF address = 65284                              \* 0xFF04 DIV
        THEN [m EXCEPT !.io = Wr(m.io, address - 65280, 0)]
    ELSE IF address = 65348 THEN m                       \* 0xFF44 LY: read only
    ELSE [m EXCEPT !.io = Wr(m.io, address - 65280, value)]

\* Memory.write_byte, VRAM branch
WriteVram(m, address, value) ==
    [m EXCEPT !.vram = Wr(m.vram, address - 32768, value)]

\* Memory.write_byte, work RAM branch
WriteWorkRam(m, address, value) ==
    [m EXCEPT !.wram = Wr(m.wram, address - 49152, value)]

\* Mutant: writes to echo RAM are dropped instead of mirrored.
WriteEchoRam_Dropped(m, address, value) == m

\* Memory.write_byte, echo RAM branch (mirror)
WriteEchoRam(m, address, value) ==
    [m EXCEPT !.wram = Wr(m.wram, address - 57344, value)]

\* Memory.write_byte, OAM branch
WriteOam(m, address, value) ==
    [m EXCEPT !.oam = Wr(m.oam, address - 65024, value)]

\* Memory.write_byte, high RAM branch
WriteHighRam(m, address, value) ==
    [m EXCEPT !.hram = Wr(m.hram, address - 65408, value)]

\* Memory.write_byte
WriteByte(m, address, value0) ==
    LET value == value0 % 256
    IN  IF address < 8192 THEN HandleRamEnable(m, address, value)          \* < 0x2000
        ELSE IF address < 16384 THEN HandleRomBankChange(m, address, value) \* < 0x4000
        ELSE IF address < 24576 THEN HandleRamBankChange(m, address, value) \* < 0x6000
        ELSE IF address < 32768 THEN HandleModeSelect(m, address, value)    \* < 0x8000
        ELSE IF address < 40960 THEN WriteVram(m, address, value)           \* < 0xA000
        ELSE IF address < 49152 THEN WriteCartRam(m, address, value)        \* < 0xC000
        ELSE IF address < 57344 THEN WriteWorkRam(m, address, value)        \* < 0xE000
        ELSE IF address < 65024 THEN WriteEchoRam(m, address, value)        \* < 0xFE00
        ELSE IF address < 65184 THEN WriteOam(m, address, value)            \* < 0xFEA0
        ELSE IF address < 65280 THEN m                                      \* < 0xFF00
        ELSE IF address < 65408 THEN WriteIoRegister(m, address, value)     \* < 0xFF80
        ELSE IF address < 65535 THEN WriteHighRam(m, address, value)        \* < 0xFFFF
        ELSE IF address = 65535 THEN [m EXCEPT !.ie_register = value]
        ELSE m

\* Memory.read_word
ReadWord(m, address) ==
    LET low  == ReadByte(m, address)
        high == ReadByte(m, address + 1)
    IN  high * 256 + low

\* Mutant: the word is stored big-endian.
WriteWord_BigEndian(m, address, value) ==
    WriteByte(WriteByte(m, address, (value \div 256) % 256), address + 1, value % 256)

\* Memory.write_word
WriteWord(m, address, value) ==
    WriteByte(WriteByte(m, address, value % 256), address + 1, (value \div 256) % 256)

\* Memory.get_io_register
GetIoRegister(m, address) ==
    IF 65280 <= address /\ address <= 65407 THEN Rd(m.io, address - 65280) ELSE 0

\* Memory.set_io_register
SetIoRegister(m, address, value) ==
    IF 65280 <= address /\ address <= 65407
    THEN [m EXCEPT !.io = Wr(m.io, address - 65280, value % 256)]
    ELSE m

-----------------------------------------------------------------------------
(* Registers (src/cpu/cpu.py)                                              *)

\* Registers.__init__ and Registers.reset
NewRegisters ==
    [a |-> 0, f |-> 0, b |-> 0, c |-> 0, d |-> 0, e |-> 0, h |-> 0, l |-> 0,
     pc |-> 0, sp |-> 0, cycles |-> 0]

\* Mutant: the AF setter keeps only the flag nibble of F.
SetAF_Masked(r, value) ==
    [r EXCEPT !.a = (value \div 256) % 256, !.f = (value % 256) - (value % 16)]

\* Registers.af (getter and setter)
GetAF(r) == r.a * 256 + r.f
SetAF(r, value) == [r EXCEPT !.a = (value \div 256) % 256, !.f = value % 256]

\* Registers.bc
GetBC(r) == r.b * 256 + r.c
SetBC(r, value) == [r EXCEPT !.b = (value \div 256) % 256, !.c = value % 256]

\* Registers.de
GetDE(r) == r.d * 256 + r.e
SetDE(r, value) == [r EXCEPT !.d = (value \div 256) % 256, !.e = value % 256]

\* Registers.hl
GetHL(r) == r.h * 256 + r.l
SetHL(r, value) == [r EXCEPT !.h = (value \div 256) % 256, !.l = value % 256]

Pairs == {"af", "bc", "de", "hl"}

GetPair(r, rr) ==
    CASE rr = "af" -> GetAF(r)
      [] rr = "bc" -> GetBC(r)
      [] rr = "de" -> GetDE(r)
      [] rr = "hl" -> GetHL(r)

SetPair(r, rr, value) ==
    CASE rr = "af" -> SetAF(r, value)
      [] rr = "bc" -> SetBC(r, value)
      [] rr = "de" -> SetDE(r, value)
      [] rr = "hl" -> SetHL(r, value)

\* Registers.flag_z, flag_n, flag_h, flag_c (getters): bits 7, 6, 5, 4 of F
FlagZ(r) == Bit(r.f, 7) = 1
FlagC(r) == Bit(r.f, 4) = 1

\* Registers.flag_z, flag_n, flag_h (setters)
SetFlag(r, bit, value) ==
    [r EXCEPT !.f = IF value THEN SetBit(r.f, bit) ELSE ClearBit(r.f, bit)]

-----------------------------------------------------------------------------
(* CPU (src/cpu/cpu.py).  An instruction maps a CPU state                  *)
(* [r: registers, m: memory, ime] to the state after it and the T-cycles   *)
(* it returns.                                                             *)

Done(r, m, i, cycles) == [r |-> r, m |-> m, ime |-> i, cycles |-> cycles]

\* CPU._nop
Nop(s) == Done(s.r, s.m, s.ime, 4)

\* CPU._ld_bc_nn, _ld_de_nn, _ld_hl_nn
LdRrNn(s, rr) ==
    LET nn == ReadWord(s.m, s.r.pc + 1)
    IN  Done(SetPair(s.r, rr, nn), s.m, s.ime, 12)

\* CPU._ld_sp_nn
LdSpNn(s) ==
    LET nn == ReadWord(s.m, s.r.pc + 1)
    IN  Done([s.r EXCEPT !.sp = nn], s.m, s.ime, 12)

\* CPU._ld_hl_n
LdHlN(s) ==
    LET n == ReadByte(s.m, s.r.pc + 1)
    IN  Done(s.r, WriteByte(s.m, GetHL(s.r), n), s.ime, 12)

\* CPU._ld_a_hl
LdAHl(s) == Done([s.r EXCEPT !.a = ReadByte(s.m, GetHL(s.r))], s.m, s.ime, 8)

\* CPU._ld_a_n, _ld_b_n, _ld_c_n, _ld_d_n, _ld_e_n, _ld_h_n, _ld_l_n
LdRN(s, reg) ==
    LET n == ReadByte(s.m, s.r.pc + 1)
    IN  Done([s.r EXCEPT ![reg] = n], s.m, s.ime, 8)

\* CPU._inc_bc, _inc_de, _inc_hl
IncRr(s, rr) == Done(SetPair(s.r, rr, GetPair(s.r, rr) + 1), s.m, s.ime, 8)

\* CPU._inc_sp
IncSp(s) == Done([s.r EXCEPT !.sp = s.r.sp + 1], s.m, s.ime, 8)

\* CPU._dec_bc, _dec_de, _dec_hl
DecRr(s, rr) == Done(SetPair(s.r, rr, GetPair(s.r, rr) - 1), s.m, s.ime, 8)

\* CPU._dec_sp
DecSp(s) == Done([s.r EXCEPT !.sp = s.r.sp - 1], s.m, s.ime, 8)

\* CPU._jp_nn
JpNn(s) ==
    LET nn == ReadWord(s.m, s.r.pc + 1)
    IN  Done([s.r EXCEPT !.pc = nn], s.m, s.ime, 16)

\* CPU._jp_nz_nn, _jp_z_nn, _jp_nc_nn, _jp_c_nn
JpCcNn(s, taken) ==
    LET nn == ReadWord(s.m, s.r.pc + 1)
    IN  IF taken THEN Done([s.r EXCEPT !.pc = nn], s.m, s.ime, 16)
                 ELSE Done(s.r, s.m, s.ime, 12)

\* CPU._call_nn
CallNn(s) ==
    LET nn == ReadWord(s.m, s.r.pc + 1)
        sp == s.r.sp - 2
    IN  Done([s.r EXCEPT !.sp = sp, !.pc = nn],
             WriteWord(s.m, sp, s.r.pc + 3), s.ime, 24)

\* CPU._ret
Ret(s) ==
    LET ret_addr == ReadWord(s.m, s.r.sp)
    IN  Done([s.r EXCEPT !.sp = s.r.sp + 2, !.pc = ret_addr], s.m, s.ime, 16)

\* CPU._push_bc, _push_de, _push_hl, _push_af
Push(s, rr) ==
    LET sp == s.r.sp - 2
    IN  Done([s.r EXCEPT !.sp = sp], WriteWord(s.m, sp, GetPair(s.r, rr)), s.ime, 16)

\* CPU._pop_bc, _pop_de, _pop_hl
Pop(s, rr) ==
    LET r1 == SetPair(s.r, rr, ReadWord(s.m, s.r.sp))
    IN  Done([r1 EXCEPT !.sp = r1.sp + 2], s.m, s.ime, 12)

\* CPU._pop_af
PopAf(s) ==
    LET r1 == SetAF(s.r, ReadWord(s.m, s.r.sp))
    IN  Done([r1 EXCEPT !.sp = r1.sp + 2], s.m, s.ime, 12)

\* CPU._ei
Ei(s) == Done(s.r, s.m, TRUE, 4)

\* CPU._di
Di(s) == Done(s.r, s.m, FALSE, 4)

\* CPU._bit_b, _bit_c, _bit_d, _bit_e, _bit_h, _bit_l, _bit_a
BitReg(s, bit, reg) ==
    LET r1 == SetFlag(s.r, 7, Bit(s.r[reg], bit) = 0)
        r2 == SetFlag(r1, 6, FALSE)
        r3 == SetFlag(r2, 5, TRUE)
    IN  Done(r3, s.m, s.ime, 8)

\* CPU._bit_hl
BitHl(s, bit) ==
    LET value == ReadByte(s.m, GetHL(s.r))
        r1 == SetFlag(s.r, 7, Bit(value, bit) = 0)
        r2 == SetFlag(r1, 6, FALSE)
        r3 == SetFlag(r2, 5, TRUE)
    IN  Done(r3, s.m, s.ime, 12)

\* CPU._build_cb_opcode_table and CPU._execute_cb_instruction:
\* the table entry 0x40 + reg * 8 + bit tests bit `bit` of register number `reg`
ExecuteCbInstruction(s, cb_opcode) ==
    IF 64 <= cb_opcode /\ cb_opcode <= 127
    THEN LET reg == (cb_opcode - 64) \div 8
             bit == (cb_opcode - 64) % 8
         IN  CASE reg = 0 -> BitReg(s, bit, "b")
               [] reg = 1 -> BitReg(s, bit, "c")
               [] reg = 2 -> BitReg(s, bit, "d")
               [] reg = 3 -> BitReg(s, bit, "e")
               [] reg = 4 -> BitReg(s, bit, "h")
               [] reg = 5 -> BitReg(s, bit, "l")
               [] reg = 6 -> BitHl(s, bit)
               [] reg = 7 -> BitReg(s, bit, "a")
    ELSE Done(s.r, s.m, s.ime, 8)

\* CPU._build_opcode_table and CPU._execute_instruction
ExecuteInstruction(s, opcode) ==
    CASE opcode = 203 ->                                   \* 0xCB
            LET s1 == [s EXCEPT !.r.pc = s.r.pc + 1]
            IN  ExecuteCbInstruction(s1, ReadByte(s1.m, s1.r.pc))
      [] opcode = 0   -> Nop(s)
      [] opcode = 1   -> LdRrNn(s, "bc")
      [] opcode = 17  -> LdRrNn(s, "de")
      [] opcode = 33  -> LdRrNn(s, "hl")
      [] opcode = 49  -> LdSpNn(s)
      [] opcode = 54  -> LdHlN(s)
      [] opcode = 126 -> LdAHl(s)
      [] opcode = 62  -> LdRN(s, "a")
      [] opcode = 6   -> LdRN(s, "b")
      [] opcode = 14  -> LdRN(s, "c")
      [] opcode = 22  -> LdRN(s, "d")
      [] opcode = 30  -> LdRN(s, "e")
      [] opcode = 38  -> LdRN(s, "h")
      [] opcode = 46  -> LdRN(s, "l")
      [] opcode = 3   -> IncRr(s, "bc")
      [] opcode = 19  -> IncRr(s, "de")
      [] opcode = 35  -> IncRr(s, "hl")
      [] opcode = 51  -> IncSp(s)
      [] opcode = 11  -> DecRr(s, "bc")
      [] opcode = 27  -> DecRr(s, "de")
      [] opcode = 43  -> DecRr(s, "hl")
      [] opcode = 59  -> DecSp(s)
      [] opcode = 195 -> JpNn(s)                           \* 0xC3
      [] opcode = 194 -> JpCcNn(s, ~FlagZ(s.r))            \* 0xC2
      [] opcode = 202 -> JpCcNn(s, FlagZ(s.r))             \* 0xCA
      [] opcode = 210 -> JpCcNn(s, ~FlagC(s.r))            \* 0xD2
      [] opcode = 218 -> JpCcNn(s, FlagC(s.r))             \* 0xDA
      [] opcode = 205 -> CallNn(s)                         \* 0xCD
      [] opcode = 201 -> Ret(s)                            \* 0xC9
      [] opcode = 197 -> Push(s, "bc")                     \* 0xC5
      [] opcode = 213 -> Push(s, "de")                     \* 0xD5
      [] opcode = 229 -> Push(s, "hl")                     \* 0xE5
      [] opcode = 245 -> Push(s, "af")                     \* 0xF5
      [] opcode = 193 -> Pop(s, "bc")                      \* 0xC1
      [] opcode = 209 -> Pop(s, "de")                      \* 0xD1
      [] opcode = 225 -> Pop(s, "hl")                      \* 0xE1
      [] opcode = 241 -> PopAf(s)                          \* 0xF1
      [] opcode = 251 -> Ei(s)                             \* 0xFB
      [] opcode = 243 -> Di(s)                             \* 0xF3
      [] OTHER        -> Done(s.r, s.m, s.ime, 4)          \* unknown opcode

\* CPU._get_instruction_length
GetInstructionLength(opcode) ==
    IF opcode = 203 THEN 2
    ELSE IF opcode \in {196, 204, 205, 212, 220, 228, 236, 244} THEN 3
    ELSE IF opcode \in {201, 217} THEN 1
    ELSE IF opcode \in {195, 194, 202, 210, 218, 226, 234, 242, 250} THEN 3
    ELSE IF opcode \in {1, 17, 33, 49} THEN 3
    ELSE IF opcode \in {6, 14, 22, 30, 38, 46, 54} THEN 2
    ELSE 1

\* CPU.step
CpuStep(s, is_halted) ==
    IF is_halted
    THEN Done(s.r, s.m, s.ime, 4)
    ELSE LET current_opcode == ReadByte(s.m, s.r.pc)
             x == ExecuteInstruction(s, current_opcode)
         IN  [x EXCEPT !.r.pc = x.r.pc + GetInstructionLength(current_opcode),
                       !.r.cycles = x.r.cycles + x.cycles]

-----------------------------------------------------------------------------
(* Construction: GameboyEmulator.__init__ and the constructors it calls.   *)

\* PPU.__init__
NewPpu == [mode |-> 0, mode_clock |-> 0, line |-> 0]

\* Timer.__init__
NewTimer == [div_counter |-> 0, tima_counter |-> 0]

\* APU.__init__ ; NoiseChannel.__init__ defines no envelope_enabled attribute
NewApu == [master_enable |-> TRUE, frame_timer |-> 0, frame_sequencer |-> 0,
           pulse1_envelope_enabled |-> FALSE, pulse2_envelope_enabled |-> FALSE,
           pulse1_sweep_enabled |-> FALSE, noise_has_envelope_enabled |-> FALSE]

\* Joypad.__init__
NewJoypad == [buttons_pressed |-> {}, directions_pressed |-> {},
              select_directions |-> FALSE, select_buttons |-> FALSE]

\* GameboyEmulator.__init__
NewEmu == [running |-> FALSE, paused |-> FALSE, frame_count |-> 0,
           cycle_count |-> 0, frame_cycles |-> 0]

NoEvent == [iterated |-> FALSE, cycles |-> 0, opcode |-> 0, pre |-> NewRegisters,
            vblank_entry |-> FALSE,
            vblank_requests |-> 0, handled |-> FALSE, due |-> FALSE,
            before |-> [regs |-> NewRegisters, iflags |-> 0, pending |-> {}],
            after |-> [regs |-> NewRegisters, ime |-> FALSE, iflags |-> 0, top |-> 0]]

NoOp == [op |-> "none", rr |-> "", a |-> 0, v |-> 0, w |-> 0, n |-> 0]

Init ==
    /\ memory = NewMemory
    /\ registers = NewRegisters
    /\ ime = FALSE
    /\ halted = FALSE
    /\ ppu = NewPpu
    /\ timer = NewTimer
    /\ apu = NewApu
    /\ joypad = NewJoypad
    /\ emu = NewEmu
    /\ at = "idle"
    /\ raised = "None"
    /\ ev = NoEvent
    /\ obs = [entries |-> 0, since_entry |-> 0, between |-> 0,
              prev |-> [opcode |-> 0, regs |-> NewRegisters, stepped |-> FALSE],
              call |-> "none", call_entries |-> 0, result |-> 0]
    /\ last_op = NoOp
    /\ last_write = [addr |-> Zeros, cell |-> Zeros]

machine_vars == <<ime, halted, ppu, timer, apu, joypad, emu, at, raised, ev, obs>>

-----------------------------------------------------------------------------
(* The register file on its own: a test harness assigns pairs and 8-bit    *)
(* registers, as test_cpu does.                                            *)

MaxRegOps == 2

\* Sample 16-bit values and bytes the harness assigns.
Words == {0, 255, 4660, 43981, 65535}          \* 0x0000 0x00FF 0x1234 0xABCD 0xFFFF
Bytes == {0, 66, 255}                          \* 0x00 0x42 0xFF
Regs8 == {"a", "f", "b", "c", "d", "e", "h", "l"}

PairHigh(rr) == CASE rr = "af" -> "a" [] rr = "bc" -> "b" [] rr = "de" -> "d" [] rr = "hl" -> "h"
PairLow(rr)  == CASE rr = "af" -> "f" [] rr = "bc" -> "c" [] rr = "de" -> "e" [] rr = "hl" -> "l"

\* cpu.registers.<rr> = v
AssignPair(rr, v) ==
    /\ last_op.n < MaxRegOps
    /\ registers' = SetPair(registers, rr, v)
    /\ last_op' = [op |-> "set_pair", rr |-> rr, a |-> 0, v |-> v, w |-> 0, n |-> last_op.n + 1]
    /\ UNCHANGED <<memory, last_write>>
    /\ UNCHANGED machine_vars

\* cpu.registers.<high> = hi ; cpu.registers.<low> = lo
AssignHalves(rr, hi, lo) ==
    /\ last_op.n < MaxRegOps
    /\ registers' = [registers EXCEPT ![PairHigh(rr)] = hi, ![PairLow(rr)] = lo]
    /\ last_op' = [op |-> "set_halves", rr |-> rr, a |-> 0, v |-> hi, w |-> lo, n |-> last_op.n + 1]
    /\ UNCHANGED <<memory, last_write>>
    /\ UNCHANGED machine_vars

NextRegs ==
    \/ \E rr \in Pairs, v \in Words : AssignPair(rr, v)
    \/ \E rr \in Pairs, hi \in Bytes, lo \in Bytes : AssignHalves(rr, hi, lo)

SpecRegs == Init /\ [][NextRegs]_vars

-----------------------------------------------------------------------------
(* The bus on its own: a test harness calls write_byte and write_word, as  *)
(* test_memory does.                                                       *)

MaxBusOps == 2

\* 0x8000 0x9FFF (VRAM), 0xC000 0xC001 0xDDFF 0xDFFF (work RAM), 0xE000 0xFDFF
\* (echo), 0xFF80 0xFFFE (high RAM)
BusAddrs == {32768, 40959, 49152, 49153, 56831, 57343, 57344, 65023, 65408, 65534}
BusBytes == {0, 66, 255}
BusWords == {4660, 43981}                       \* 0x1234 0xABCD

InVram(a) == 32768 <= a /\ a <= 40959           \* 8000-9FFF
InWram(a) == 49152 <= a /\ a <= 57343           \* C000-DFFF
InHram(a) == 65408 <= a /\ a <= 65534           \* FF80-FFFE
InEcho(a) == 57344 <= a /\ a <= 65023           \* E000-FDFF

Put(f, k, v) == [j \in (DOMAIN f) \cup {k} |-> IF j = k THEN v ELSE f[j]]

\* The work-RAM address an echo address stands for.
Cell(a) == IF InEcho(a) THEN a - 8192 ELSE a

Note(lw, a, v) == [addr |-> Put(lw.addr, a, v), cell |-> Put(lw.cell, Cell(a), v)]

\* memory.write_byte(a, v)
BusWriteByte(a, v) ==
    /\ last_op.n < MaxBusOps
    /\ memory' = WriteByte(memory, a, v)
    /\ last_write' = Note(last_write, a, v)
    /\ last_op' = [op |-> "write_byte", rr |-> "", a |-> a, v |-> v, w |-> 0, n |-> last_op.n + 1]
    /\ UNCHANGED registers
    /\ UNCHANGED machine_vars

\* memory.write_word(a, v): two write_byte calls
BusWriteWord(a, v) ==
    /\ last_op.n < MaxBusOps
    /\ memory' = WriteWord(memory, a, v)
    /\ last_write' = Note(Note(last_write, a, v % 256), a + 1, (v \div 256) % 256)
    /\ last_op' = [op |-> "write_word", rr |-> "", a |-> a, v |-> v, w |-> 0, n |-> last_op.n + 1]
    /\ UNCHANGED registers
    /\ UNCHANGED machine_vars

NextBus ==
    \/ \E a \in BusAddrs, v \in BusBytes : BusWriteByte(a, v)
    \/ \E a \in BusAddrs, v \in BusWords : BusWriteWord(a, v)

SpecBus == Init /\ [][NextBus]_vars

-----------------------------------------------------------------------------
(* Interrupt handler and timer (src/core/emulator.py)                      *)

\* InterruptHandler.interrupts, in dictionary order
InterruptNames == <<"VBLANK", "STAT", "TIMER", "SERIAL", "JOYPAD">>

InterruptVector(name) ==
    CASE name = "VBLANK" -> 64      \* 0x40
      [] name = "STAT"   -> 72      \* 0x48
      [] name = "TIMER"  -> 80      \* 0x50
      [] name = "SERIAL" -> 88      \* 0x58
      [] name = "JOYPAD" -> 96      \* 0x60

\* bit = (address - 0x40) // 8
InterruptBit(address) == (address - 64) \div 8

\* Mutant: a request overwrites IF instead of or-ing its bit in.
RequestInterrupt_Overwrite(m, name) ==
    [m EXCEPT !.io = Wr(m.io, 15, Pow2(InterruptBit(InterruptVector(name))))]

\* InterruptHandler.request_interrupt
RequestInterrupt(m, name) ==
    [m EXCEPT !.io = Wr(m.io, 15, SetBit(Rd(m.io, 15), InterruptBit(InterruptVector(name))))]

\* InterruptHandler._execute_interrupt
ExecuteInterrupt(r, m, address) ==
    LET io1 == Wr(m.io, 15, ClearBit(Rd(m.io, 15), InterruptBit(address)))
        sp  == r.sp - 2
        m1  == WriteWord([m EXCEPT !.io = io1], sp, r.pc)
    IN  [r |-> [r EXCEPT !.sp = sp, !.pc = address], m |-> m1, ime |-> FALSE,
         raised |-> "None", dispatched |-> TRUE]

RECURSIVE ServiceFrom(_, _, _, _, _)
\* InterruptHandler.handle_interrupts, the loop over self.interrupts from entry k
ServiceFrom(k, r, m, ie, iflags) ==
    IF k > Len(InterruptNames)
    THEN [r |-> r, m |-> m, ime |-> TRUE, raised |-> "None", dispatched |-> FALSE]
    ELSE LET addr == InterruptVector(InterruptNames[k])
             bit  == InterruptBit(addr)
         IN  IF Bit(ie, bit) = 1 /\ Bit(iflags, bit) = 1
             THEN ExecuteInterrupt(r, m, addr)
             ELSE ServiceFrom(k + 1, r, m, ie, iflags)

\* InterruptHandler.get_enabled_interrupts reads self.memory.io[0xFF]
EnabledInterruptsIndex == 255

\* InterruptHandler.handle_interrupts
HandleInterrupts(r, m, i) ==
    IF ~i
    THEN [r |-> r, m |-> m, ime |-> i, raised |-> "None", dispatched |-> FALSE]
    ELSE IF EnabledInterruptsIndex >= IoLen
    THEN [r |-> r, m |-> m, ime |-> i, raised |-> "IndexError", dispatched |-> FALSE]
    ELSE ServiceFrom(1, r, m, Rd(m.io, EnabledInterruptsIndex), Rd(m.io, 15))

\* Mutant: on overflow TIMA restarts from 0 instead of TMA.
IncrementTima_FromZero(m) ==
    LET tima == Rd(m.io, 5)
    IN  IF tima = 255
        THEN RequestInterrupt([m EXCEPT !.io = Wr(m.io, 5, 0)], "TIMER")
        ELSE [m EXCEPT !.io = Wr(m.io, 5, tima + 1)]

\* Timer._increment_tima
IncrementTima(m) ==
    LET tima == Rd(m.io, 5)
    IN  IF tima = 255
        THEN RequestInterrupt([m EXCEPT !.io = Wr(m.io, 5, Rd(m.io, 6))], "TIMER")
        ELSE [m EXCEPT !.io = Wr(m.io, 5, tima + 1)]

\* Timer.step: threshold = 4194304 // frequencies[clock_select]
TimerThreshold(clock_select) ==
    4194304 \div (CASE clock_select = 0 -> 1024
                    [] clock_select = 1 -> 16
                    [] clock_select = 2 -> 64
                    [] clock_select = 3 -> 256)

\* Timer.step
TimerStep(t, m, cycles) ==
    LET div1 == t.div_counter + cycles
        wrap == div1 >= 256
        m1   == IF wrap THEN [m EXCEPT !.io = Wr(m.io, 4, (Rd(m.io, 4) + 1) % 256)] ELSE m
        t1   == [t EXCEPT !.div_counter = IF wrap THEN div1 - 256 ELSE div1]
    IN  IF Bit(Rd(m1.io, 7), 2) = 1
        THEN LET tc == t1.tima_counter + cycles
                 threshold == TimerThreshold(Rd(m1.io, 7) % 4)
             IN  IF tc >= threshold
                 THEN [t |-> [t1 EXCEPT !.tima_counter = tc - threshold], m |-> IncrementTima(m1)]
                 ELSE [t |-> [t1 EXCEPT !.tima_counter = tc], m |-> m1]
        ELSE [t |-> t1, m |-> m1]

-----------------------------------------------------------------------------
(* PPU mode machine (src/gpu/ppu.py).  The frame buffer and the rendering  *)
(* of a scanline change no state the mode machine reads and are left out.  *)

\* PPU._request_vblank_interrupt: get_io_register(0x0F), set_io_register(0x0F, ...)
RequestVblankInterrupt(m) ==
    LET if_reg == GetIoRegister(m, 15)
    IN  SetIoRegister(m, 15, SetBit(if_reg, 0))

\* Mutant: VBlank is entered on reaching line 145.
PpuStep_VblankAt145(p, m, cycles) ==
    IF Bit(GetIoRegister(m, 65344), 7) = 0            \* lcd_enabled, LCDC 0xFF40
    THEN [p |-> p, m |-> m, entry |-> FALSE]
    ELSE LET clock == p.mode_clock + cycles
             stay  == [p |-> [p EXCEPT !.mode_clock = clock], m |-> m, entry |-> FALSE]
         IN  CASE p.mode = 0 ->
                    IF clock >= 204
                    THEN IF p.line + 1 = 145
                         THEN [p |-> [mode |-> 1, mode_clock |-> 0, line |-> p.line + 1],
                               m |-> RequestVblankInterrupt(m), entry |-> TRUE]
                         ELSE [p |-> [mode |-> 2, mode_clock |-> 0, line |-> p.line + 1],
                               m |-> m, entry |-> FALSE]
                    ELSE stay
               [] p.mode = 1 ->
                    IF clock >= 456
                    THEN IF p.line + 1 > 153
                         THEN [p |-> [mode |-> 2, mode_clock |-> 0, line |-> 0],
                               m |-> m, entry |-> FALSE]
                         ELSE [p |-> [mode |-> 1, mode_clock |-> 0, line |-> p.line + 1],
                               m |-> m, entry |-> FALSE]
                    ELSE stay
               [] p.mode = 2 ->
                    IF clock >= 80
                    THEN [p |-> [mode |-> 3, mode_clock |-> 0, line |-> p.line],
                          m |-> m, entry |-> FALSE]
                    ELSE stay
               [] p.mode = 3 ->
                    IF clock >= 172
                    THEN [p |-> [mode |-> 0, mode_clock |-> 0, line |-> p.line],
                          m |-> m, entry |-> FALSE]
                    ELSE stay

\* PPU.step; entry tells whether the step entered line 144
PpuStep(p, m, cycles) ==
    IF Bit(GetIoRegister(m, 65344), 7) = 0            \* lcd_enabled, LCDC 0xFF40
    THEN [p |-> p, m |-> m, entry |-> FALSE]
    ELSE LET clock == p.mode_clock + cycles
             stay  == [p |-> [p EXCEPT !.mode_clock = clock], m |-> m, entry |-> FALSE]
         IN  CASE p.mode = 0 ->
                    IF clock >= 204
                    THEN IF p.line + 1 = 144
                         THEN [p |-> [mode |-> 1, mode_clock |-> 0, line |-> p.line + 1],
                               m |-> RequestVblankInterrupt(m), entry |-> TRUE]
                         ELSE [p |-> [mode |-> 2, mode_clock |-> 0, line |-> p.line + 1],
                               m |-> m, entry |-> FALSE]
                    ELSE stay
               [] p.mode = 1 ->
                    IF clock >= 456
                    THEN IF p.line + 1 > 153
                         THEN [p |-> [mode |-> 2, mode_clock |-> 0, line |-> 0],
                               m |-> m, entry |-> FALSE]
                         ELSE [p |-> [mode |-> 1, mode_clock |-> 0, line |-> p.line + 1],
                               m |-> m, entry |-> FALSE]
                    ELSE stay
               [] p.mode = 2 ->
                    IF clock >= 80
                    THEN [p |-> [mode |-> 3, mode_clock |-> 0, line |-> p.line],
                          m |-> m, entry |-> FALSE]
                    ELSE stay
               [] p.mode = 3 ->
                    IF clock >= 172
                    THEN [p |-> [mode |-> 0, mode_clock |-> 0, line |-> p.line],
                          m |-> m, entry |-> FALSE]
                    ELSE stay

-----------------------------------------------------------------------------
(* APU frame sequencer (src/apu/apu.py).  No channel is ever triggered by  *)
(* the core, so every channel's step returns 0.0; the sample buffer is     *)
(* left out.                                                               *)

\* APU._update_frame_sequencer: reading self.noise.envelope_enabled raises
\* AttributeError while the noise channel has no such attribute
UpdateFrameSequencer(a) ==
    LET fs == (a.frame_sequencer + 1) % 8
        a1 == [a EXCEPT !.frame_sequencer = fs]
    IN  IF fs \in {2, 6} /\ ~a.noise_has_envelope_enabled
        THEN [a |-> a1, raised |-> "AttributeError"]
        ELSE [a |-> a1, raised |-> "None"]

\* APU.step
ApuStep(a, cycles) ==
    IF ~a.master_enable
    THEN [a |-> a, raised |-> "None"]
    ELSE LET ft == a.frame_timer + cycles
         IN  IF ft >= 8192
             THEN UpdateFrameSequencer([a EXCEPT !.frame_timer = ft - 8192])
             ELSE [a |-> [a EXCEPT !.frame_timer = ft], raised |-> "None"]

-----------------------------------------------------------------------------
(* Joypad (src/input/joypad.py)                                            *)

\* Joypad._update_joypad_register
UpdateJoypadRegister(j, m) ==
    LET d1 == IF j.select_directions
              THEN (IF "down"  \in j.directions_pressed THEN {3} ELSE {}) \cup
                   (IF "up"    \in j.directions_pressed THEN {2} ELSE {}) \cup
                   (IF "left"  \in j.directions_pressed THEN {1} ELSE {}) \cup
                   (IF "right" \in j.directions_pressed THEN {0} ELSE {})
              ELSE {}
        b1 == IF j.select_buttons
              THEN (IF "start"  \in j.buttons_pressed THEN {3} ELSE {}) \cup
                   (IF "select" \in j.buttons_pressed THEN {2} ELSE {}) \cup
                   (IF "b"      \in j.buttons_pressed THEN {1} ELSE {}) \cup
                   (IF "a"      \in j.buttons_pressed THEN {0} ELSE {})
              ELSE {}
        low == (IF 0 \in d1 \cup b1 THEN 0 ELSE 1) + (IF 1 \in d1 \cup b1 THEN 0 ELSE 2)
             + (IF 2 \in d1 \cup b1 THEN 0 ELSE 4) + (IF 3 \in d1 \cup b1 THEN 0 ELSE 8)
        current_p1 == GetIoRegister(m, 65280)
        selection_bits == 16 * Bit(current_p1, 4) + 32 * Bit(current_p1, 5)
    IN  SetIoRegister(m, 65280, selection_bits + low)

\* GameboyEmulator._handle_input
HandleInput(j, m) ==
    LET p1 == GetIoRegister(m, 65280)
    IN  IF Bit(p1, 4) = 0 \/ Bit(p1, 5) = 0 THEN UpdateJoypadRegister(j, m) ELSE m

-----------------------------------------------------------------------------
(* The machine: GameboyEmulator (src/core/emulator.py).  The host loads a  *)
(* ROM image, configures the APU and calls run(), which calls run_frame    *)
(* while the emulator is running; what run_frame raises ends that run()    *)
(* (its except and finally clauses), and the host may call run() again.    *)
(* The window's timer calls run_frame without run(): that call is refused. *)

\* A ROM image of 32 KiB holding `code` at the entry point 0x0100, zero elsewhere
\* (so the cartridge-type byte at 0x147 is 0).
Program(code) ==
    [len |-> 32768,
     data |-> [j \in {255 + k : k \in {n \in 1..Len(code) : code[n] # 0}} |-> code[j - 255]]]

\* JP 0x00FD: the jump lands on 0x00FD + 3 = 0x0100, a loop of 16-cycle steps
LoopProgram == Program(<<195, 253, 0>>)

\* LD HL,0xFFFF ; LD (HL),0x01 ; EI ; JP 0x0103
EiProgram == Program(<<33, 255, 255, 54, 1, 251, 195, 3, 1>>)

\* LD BC,0x120F ; PUSH BC ; POP AF ; PUSH AF ; POP AF ; JP 0x0104
AfProgram == Program(<<1, 15, 18, 197, 241, 245, 241, 195, 4, 1>>)

RomImages == {LoopProgram, EiProgram, AfProgram}

\* Memory._detect_mbc_type
DetectMbcType(data) ==
    LET mbc_code == Rd(data, 327)                       \* rom_data[0x147]
    IN  CASE mbc_code = 0 -> "ROM_ONLY"
          [] mbc_code \in {1, 2, 3} -> "MBC1"
          [] mbc_code \in {5, 6} -> "MBC2"
          [] mbc_code \in {15, 16, 17, 18, 19} -> "MBC3"
          [] mbc_code \in {25, 26, 27, 28, 29, 30} -> "MBC5"
          [] OTHER -> "UNKNOWN"

\* Memory.load_rom, for an image of at least 0x8000 bytes
MemoryLoadRom(m, img) ==
    LET rom_size == IF img.len < RomLen THEN img.len ELSE RomLen
        kept == {k \in DOMAIN m.rom : k >= rom_size}
        copied == {k \in DOMAIN img.data : k < rom_size}
    IN  [m EXCEPT !.rom = [k \in kept \cup copied |->
                              IF k \in copied THEN img.data[k] ELSE m.rom[k]],
                  !.mbc_type = DetectMbcType(img.data)]

\* GameboyEmulator.load_rom
LoadRom(img) ==
    /\ at = "idle" /\ ~emu.running
    /\ emu.cycle_count = 0                  \* the host sets up before the first frame
    /\ img.len >= 32768
    /\ memory' = MemoryLoadRom(memory, img)
    /\ registers' = [registers EXCEPT !.pc = 256, !.sp = 65534]
    /\ ime' = FALSE
    /\ raised' = "None"
    /\ UNCHANGED <<halted, ppu, timer, apu, joypad, emu, at, ev, obs, last_op, last_write>>

\* APU.set_master_enable
SetMasterEnable(enable) ==
    /\ at = "idle" /\ ~emu.running
    /\ emu.cycle_count = 0
    /\ apu' = [apu EXCEPT !.master_enable = enable]
    /\ raised' = "None"
    /\ UNCHANGED <<memory, registers, ime, halted, ppu, timer, joypad, emu, at, ev, obs,
                   last_op, last_write>>

\* GameboyEmulator.run: running = True, then the loop that calls run_frame
Start ==
    /\ at = "idle" /\ ~emu.running
    /\ emu' = [emu EXCEPT !.running = TRUE]
    /\ raised' = "None"
    /\ UNCHANGED <<memory, registers, ime, halted, ppu, timer, apu, joypad, at, ev, obs,
                   last_op, last_write>>

\* Mutant: a refused call still counts a frame.
RunFrameRefused_CountsFrame ==
    /\ at = "idle" /\ ~emu.running
    /\ raised' = "None"
    /\ emu' = [emu EXCEPT !.frame_count = emu.frame_count + 1]
    /\ obs' = [obs EXCEPT !.call = "refused", !.result = 0]
    /\ UNCHANGED <<memory, registers, ime, halted, ppu, timer, apu, joypad, at, ev,
                   last_op, last_write>>

\* GameboyEmulator.run_frame, called while the emulator is not running: returns False
RunFrameRefused ==
    /\ at = "idle" /\ ~emu.running
    /\ raised' = "None"
    /\ obs' = [obs EXCEPT !.call = "refused", !.result = 0]       \* False
    /\ UNCHANGED <<memory, registers, ime, halted, ppu, timer, apu, joypad, emu, at, ev,
                   last_op, last_write>>

\* GameboyEmulator.run calls run_frame; its entry: frame_cycles = 0
RunFrameEnter ==
    /\ at = "idle" /\ emu.running
    /\ emu.cycle_count < MaxCycles
    /\ emu' = [emu EXCEPT !.frame_cycles = 0]
    /\ at' = "loop"
    /\ raised' = "None"
    /\ obs' = [obs EXCEPT !.call = "running", !.call_entries = 0]
    /\ UNCHANGED <<memory, registers, ime, halted, ppu, timer, apu, joypad, ev,
                   last_op, last_write>>

\* The IF & IE & 0x1F of the dispatch rule, IE being the byte at 0xFFFF
Pending(m) ==
    {b \in 0..4 : Bit(Rd(m.io, 15), b) = 1 /\ Bit(m.ie_register, b) = 1}

\* GameboyEmulator.run_frame, one iteration of the while loop.  An exception
\* leaves the loop and run_frame; run() catches it and sets running = False.
Iterate ==
    /\ at = "loop" /\ ~emu.paused
    /\ emu.frame_cycles < 70224
    /\ \E c \in {CpuStep([r |-> registers, m |-> memory, ime |-> ime], halted)} :
       \E t \in {TimerStep(timer, c.m, c.cycles)} :
       \E p \in {PpuStep(ppu, t.m, c.cycles)} :
       \E a \in {ApuStep(apu, c.cycles)} :
       \E h \in {HandleInterrupts(c.r, p.m, c.ime)} :
       \E j \in {HandleInput(joypad, h.m)} :
       LET cycles == c.cycles
           fc == emu.frame_cycles + cycles
           near_end == fc >= 70224 - 4560
           done == a.raised = "None" /\ h.raised = "None"
           ppu_requested == p.entry /\ Bit(Rd(p.m.io, 15), 0) = 1
                            /\ p.m.io # t.m.io
           since == obs.since_entry + cycles
       IN  /\ registers' = IF a.raised = "None" THEN h.r ELSE c.r
           /\ ime' = IF a.raised = "None" THEN h.ime ELSE c.ime
           /\ memory' = IF ~done THEN (IF a.raised = "None" THEN h.m ELSE p.m)
                        ELSE IF near_end THEN RequestInterrupt(j, "VBLANK") ELSE j
           /\ timer' = t.t
           /\ ppu' = p.p
           /\ apu' = a.a
           /\ emu' = [emu EXCEPT !.frame_cycles = fc, !.cycle_count = emu.cycle_count + cycles,
                                 !.running = done]
           /\ at' = IF done THEN "loop" ELSE "idle"
           /\ raised' = IF a.raised # "None" THEN a.raised ELSE h.raised
           /\ ev' = [iterated |-> TRUE, cycles |-> cycles,
                     opcode |-> ReadByte(memory, registers.pc),
                     pre |-> registers,
                     vblank_entry |-> p.entry,
                     vblank_requests |-> (IF ppu_requested THEN 1 ELSE 0)
                                       + (IF done /\ near_end THEN 1 ELSE 0),
                     handled |-> a.raised = "None",
                     due |-> c.ime /\ Pending(p.m) # {},
                     before |-> [regs |-> c.r, iflags |-> Rd(p.m.io, 15), pending |-> Pending(p.m)],
                     after |-> [regs |-> h.r, ime |-> h.ime, iflags |-> Rd(h.m.io, 15),
                                top |-> ReadWord(h.m, h.r.sp)]]
           /\ obs' = [entries |-> obs.entries + (IF p.entry THEN 1 ELSE 0),
                      since_entry |-> IF p.entry THEN 0 ELSE since,
                      between |-> IF p.entry /\ obs.entries >= 1 THEN since ELSE obs.between,
                      prev |-> [opcode |-> ev.opcode, regs |-> ev.pre, stepped |-> ev.iterated],
                      call |-> IF done THEN "running" ELSE "raised",
                      call_entries |-> obs.call_entries + (IF p.entry THEN 1 ELSE 0),
                      result |-> obs.result]
    /\ UNCHANGED <<halted, joypad, last_op, last_write>>

\* GameboyEmulator.run_frame, after the loop: frame_count += 1, returns True
RunFrameExit ==
    /\ at = "loop" /\ emu.frame_cycles >= 70224
    /\ emu' = [emu EXCEPT !.frame_count = emu.frame_count + 1]
    /\ at' = "idle"
    /\ raised' = "None"
    /\ obs' = [obs EXCEPT !.call = "returned", !.result = 1]      \* True
    /\ UNCHANGED <<memory, registers, ime, halted, ppu, timer, apu, joypad, ev,
                   last_op, last_write>>

Next ==
    \/ \E img \in RomImages : LoadRom(img)
    \/ \E enable \in BOOLEAN : SetMasterEnable(enable)
    \/ Start
    \/ RunFrameRefused
    \/ RunFrameEnter
    \/ Iterate
    \/ RunFrameExit

Spec == Init /\ [][Next]_vars

-----------------------------------------------------------------------------
(* Single CPU steps: a Memory and a CPU, a two-byte program put at 0x0100  *)
(* either as a ROM image (load_rom) or by bus writes on the fresh Memory   *)
(* (test_instructions), then one CPU.step.  last_op records the program    *)
(* (v = opcode, n = operand), the way it was installed (rr) and the        *)
(* cycles the step returned (w).                                           *)

\* LD A,n ; LD B,n ; LD C,n ; LD D,n ; LD E,n ; LD H,n ; LD L,n
LdImmediateOpcodes == {62, 6, 14, 22, 30, 38, 46}

\* GameboyEmulator.load_rom with an image holding opcode, n at 0x0100
CpuLoadProgram(opcode, n) ==
    /\ last_op.op = "none"
    /\ memory' = MemoryLoadRom(memory, Program(<<opcode, n>>))
    /\ registers' = [registers EXCEPT !.pc = 256, !.sp = 65534]
    /\ ime' = FALSE
    /\ last_op' = [NoOp EXCEPT !.op = "program", !.rr = "rom", !.v = opcode, !.n = n]
    /\ UNCHANGED <<machine_vars, last_write>>

\* test_instructions: write_byte(0x0100, 0x3E) ; write_byte(0x0101, n) ; pc = 0x0100
CpuWriteProgram(n) ==
    /\ last_op.op = "none"
    /\ memory' = WriteByte(WriteByte(memory, 256, 62), 257, n)
    /\ registers' = [registers EXCEPT !.pc = 256]
    /\ last_op' = [NoOp EXCEPT !.op = "program", !.rr = "write", !.v = 62, !.n = n]
    /\ UNCHANGED <<ime, machine_vars, last_write>>

\* CPU.step, once
CpuStepOnce ==
    /\ last_op.op = "program"
    /\ \E c \in {CpuStep([r |-> registers, m |-> memory, ime |-> ime], halted)} :
          /\ registers' = c.r
          /\ memory' = c.m
          /\ ime' = c.ime
          /\ last_op' = [last_op EXCEPT !.op = "step", !.w = c.cycles]
    /\ UNCHANGED <<machine_vars, last_write>>

NextCpu ==
    \/ \E opcode \in LdImmediateOpcodes, n \in 0..255 : CpuLoadProgram(opcode, n)
    \/ \E n \in 0..255 : CpuWriteProgram(n)
    \/ CpuStepOnce

SpecCpu == Init /\ [][NextCpu]_vars

-----------------------------------------------------------------------------
(* The host interface of GameboyEmulator: load_rom with any image file,    *)
(* reset and get_state, called between short runs of the machine.          *)

\* run_frame stops iterating in this specification after this many T-cycles.
MaxHostCycles == 64

\* A ROM file of 0x100 bytes, too short for a header
ShortImage == [len |-> 256, data |-> Zeros]

\* A ROM file of exactly 0x150 bytes: a header of cartridge type 0x00, no code
HeaderOnlyImage == [len |-> 336, data |-> Zeros]

\* A 32 KiB ROM file whose cartridge-type byte at 0x147 is 0xFF
UnknownMbcImage == [len |-> 32768, data |-> [j \in {327} |-> 255]]

HostImages == {ShortImage, HeaderOnlyImage, UnknownMbcImage, EiProgram, LoopProgram}

\* The file rom_path.replace('.gb', '_boot.gb'): absent, 256 bytes, or 255 bytes
NoBoot == [present |-> FALSE, len |-> 0, data |-> Zeros]

GoodBoot == [present |-> TRUE, len |-> 256, data |-> [j \in {0} |-> 49]]

BadBoot == [present |-> TRUE, len |-> 255, data |-> [j \in {0} |-> 49]]

BootFiles == {NoBoot, GoodBoot, BadBoot}

\* Memory.load_boot_rom, for a file of exactly 256 bytes
LoadBootRom(m, boot) ==
    [m EXCEPT !.boot_rom = boot.data, !.boot_loaded = TRUE, !.boot_rom_enabled = TRUE]

\* GameboyEmulator.load_rom: every exception is caught and False is returned
\* (last_op.w is the returned value: 1 for True, 0 for False)
HostLoadRom(img, boot) ==
    /\ at = "idle" /\ ~emu.running
    /\ IF img.len < 32768
       THEN \* Memory.load_rom raises ValueError before it copies anything
            /\ UNCHANGED <<memory, registers, ime>>
            /\ last_op' = [NoOp EXCEPT !.op = "load_rom", !.n = img.len, !.w = 0]
       ELSE IF boot.present /\ boot.len # 256
       THEN \* Memory.load_boot_rom raises ValueError after the ROM was copied
            /\ memory' = MemoryLoadRom(memory, img)
            /\ UNCHANGED <<registers, ime>>
            /\ last_op' = [NoOp EXCEPT !.op = "load_rom", !.n = img.len, !.w = 0]
       ELSE /\ memory' = IF boot.present
                         THEN LoadBootRom(MemoryLoadRom(memory, img), boot)
                         ELSE MemoryLoadRom(memory, img)
            /\ registers' = [registers EXCEPT !.pc = 256, !.sp = 65534]
            /\ ime' = FALSE
            /\ last_op' = [NoOp EXCEPT !.op = "load_rom", !.n = img.len, !.w = 1]
    /\ raised' = "None"
    /\ UNCHANGED <<halted, ppu, timer, apu, joypad, emu, at, ev, obs, last_write>>

\* Registers.reset
RegistersReset(r) ==
    [a |-> 0, f |-> 0, b |-> 0, c |-> 0, d |-> 0, e |-> 0, h |-> 0, l |-> 0,
     pc |-> 0, sp |-> 0, cycles |-> 0]

\* Memory.reset
MemoryReset(m) ==
    [rom |-> Zeros, wram |-> Zeros, vram |-> Zeros, oam |-> Zeros,
     hram |-> Zeros, io |-> InitIo, ie_register |-> 0,
     boot_rom |-> Zeros, boot_loaded |-> FALSE, boot_rom_enabled |-> TRUE,
     cart_ram |-> Zeros, cart_ram_len |-> 0, cart_ram_enabled |-> FALSE,
     mbc_type |-> "None", rom_bank |-> 1, ram_bank |-> 0, ram_enabled |-> FALSE]

\* PPU.reset
PpuReset(p) == [p EXCEPT !.mode = 0, !.mode_clock = 0, !.line = 0]

\* APU.reset: new channel objects, frame sequencer and timer zero; the master
\* enable is kept
ApuReset(a) ==
    [a EXCEPT !.frame_sequencer = 0, !.frame_timer = 0,
              !.pulse1_envelope_enabled = FALSE, !.pulse2_envelope_enabled = FALSE,
              !.pulse1_sweep_enabled = FALSE, !.noise_has_envelope_enabled = FALSE]

\* Joypad.reset, the sets it clears
JoypadReset(j) == [j EXCEPT !.buttons_pressed = {}, !.directions_pressed = {}]

\* GameboyEmulator.reset; the Timer is not reset, running and paused are kept
HostReset ==
    /\ at = "idle"
    /\ memory' = UpdateJoypadRegister(JoypadReset(joypad), MemoryReset(memory))
    /\ registers' = RegistersReset(registers)
    /\ halted' = FALSE
    /\ ime' = FALSE
    /\ ppu' = PpuReset(ppu)
    /\ apu' = ApuReset(apu)
    /\ joypad' = JoypadReset(joypad)
    /\ emu' = [emu EXCEPT !.frame_count = 0, !.cycle_count = 0]
    /\ raised' = "None"
    /\ last_op' = [NoOp EXCEPT !.op = "reset"]
    /\ UNCHANGED <<timer, at, ev, obs, last_write>>

\* The attributes and properties a Registers object has
RegistersAttributes ==
    {"a", "f", "b", "c", "d", "e", "h", "l", "pc", "sp", "cycles",
     "af", "bc", "de", "hl", "flag_z", "flag_n", "flag_h", "flag_c"}

\* Registers.__str__: the attributes its f-string reads
RegistersStrReads == {"af", "bc", "de", "hl", "sp", "pc04X", "f"}

\* Registers.__str__
RegistersStr(r) ==
    IF RegistersStrReads \subseteq RegistersAttributes THEN "None" ELSE "AttributeError"

\* The keys of the dictionary get_state builds
StateKeys ==
    {"running", "paused", "frame_count", "cycle_count", "cpu_registers", "ime", "halted"}

\* GameboyEmulator.get_state: last_op.rr is what the call raised, last_op.keys
\* the keys of the dictionary it returned
HostGetState ==
    /\ at = "idle"
    /\ raised' = RegistersStr(registers)
    /\ last_op' = [op |-> "get_state", rr |-> RegistersStr(registers), a |-> 0, v |-> 0,
                   w |-> 0, n |-> 0,
                   keys |-> IF RegistersStr(registers) = "None" THEN StateKeys ELSE {}]
    /\ UNCHANGED <<memory, registers, ime, halted, ppu, timer, apu, joypad, emu, at, ev, obs,
                   last_write>>

\* run_frame's loop, cut once MaxHostCycles T-cycles have been executed in all
\* (cycle_count restarts at every reset, obs.since_entry does not)
HostIterate == obs.since_entry < MaxHostCycles /\ Iterate

NextHost ==
    \/ \E img \in HostImages, boot \in BootFiles : HostLoadRom(img, boot)
    \/ HostReset
    \/ HostGetState
    \/ Start
    \/ RunFrameEnter
    \/ HostIterate

SpecHost == Init /\ [][NextHost]_vars

-----------------------------------------------------------------------------
(* The timer on its own: bus writes to DIV, TIMA, TMA and TAC, and calls   *)
(* of Timer.step.  last_op records the last write (a, v), the cycles       *)
(* stepped since the last write to TIMA, TMA or TAC (n), since the last    *)
(* write to DIV (d, -1 before any), in all (total), the number of writes,  *)
(* TIMA as the last write left it (tima0) and whether the timer's TIMA     *)
(* prescaler was 0 at that write (aligned).                                *)

MaxTimerCycles == 288
MaxTimerWrites == 3

\* The cycle counts Timer.step is called with
TimerTicks == {16, 64}

\* The writes of the timer scenario: DIV, TIMA = 0xFF, TMA = 0x10, TAC = 5 or 6
TimerWrites ==
    {<<65284, 66>>, <<65285, 255>>, <<65286, 16>>, <<65287, 5>>, <<65287, 6>>}

NoTimerOp ==
    [op |-> "none", a |-> 0, v |-> 0, n |-> 0, d |-> -1, total |-> 0, writes |-> 0,
     tima0 |-> 0, aligned |-> TRUE]

\* Memory.write_byte on a timer register
TimerWrite(a, v) ==
    /\ last_op.op \in {"none", "write", "tick"}
    /\ (IF last_op.op = "none" THEN 0 ELSE last_op.writes) < MaxTimerWrites
    /\ memory' = WriteByte(memory, a, v)
    /\ LET lo == IF last_op.op = "none" THEN NoTimerOp ELSE last_op
       IN  last_op' = IF a = 65284
                      THEN [lo EXCEPT !.op = "write", !.a = a, !.v = v, !.d = 0,
                                      !.writes = lo.writes + 1]
                      ELSE [lo EXCEPT !.op = "write", !.a = a, !.v = v, !.n = 0,
                                      !.writes = lo.writes + 1,
                                      !.tima0 = Rd(memory'.io, 5),
                                      !.aligned = (timer.tima_counter = 0)]
    /\ UNCHANGED <<registers, machine_vars, last_write>>

\* Timer.step(cycles)
TimerTick(cycles) ==
    /\ last_op.op \in {"none", "write", "tick"}
    /\ (IF last_op.op = "none" THEN 0 ELSE last_op.total) + cycles <= MaxTimerCycles
    /\ \E s \in {TimerStep(timer, memory, cycles)} :
          /\ timer' = s.t
          /\ memory' = s.m
    /\ LET lo == IF last_op.op = "none" THEN NoTimerOp ELSE last_op
       IN  last_op' = [lo EXCEPT !.op = "tick", !.n = lo.n + cycles,
                                 !.d = IF lo.d < 0 THEN lo.d ELSE lo.d + cycles,
                                 !.total = lo.total + cycles]
    /\ UNCHANGED <<registers, ime, halted, ppu, apu, joypad, emu, at, raised, ev, obs,
                   last_write>>

NextTimer ==
    \/ \E w \in TimerWrites : TimerWrite(w[1], w[2])
    \/ \E cycles \in TimerTicks : TimerTick(cycles)

SpecTimer == Init /\ [][NextTimer]_vars

-----------------------------------------------------------------------------
(* Sprite selection (PPU._render_sprites_line) on its own: OAM and LCDC    *)
(* are filled by bus writes, then the selection of one scanline is         *)
(* computed.  Drawing the selected sprites into the frame buffer is left   *)
(* out.  While the OAM is filled last_op holds the next entry (a) and the  *)
(* pattern (v, w, n, d); after the selection it holds the scanline (n) and *)
(* the list of selected OAM indices in rendering order (sel).              *)

\* obj_size: 16 if LCDC bit 2 is set, else 8
ObjSize(m) == IF Bit(GetIoRegister(m, 65344), 2) = 1 THEN 16 ELSE 8

\* The test of one OAM entry against the scanline
SpriteOnLine(m, line, i) ==
    LET sprite_y == ReadByte(m, 65024 + i * 4) - 16
    IN  line >= sprite_y /\ line < sprite_y + ObjSize(m)

\* Mutant: the loop never stops at ten sprites.
RECURSIVE FindSprites_NoLimit(_, _, _, _)
FindSprites_NoLimit(m, line, i, found) ==
    IF i >= 40 THEN found
    ELSE IF SpriteOnLine(m, line, i)
         THEN FindSprites_NoLimit(m, line, i + 1, Append(found, i))
         ELSE FindSprites_NoLimit(m, line, i + 1, found)

RECURSIVE FindSprites(_, _, _, _)
\* The loop "for i in range(40)" from entry i on, with its break at ten sprites
FindSprites(m, line, i, found) ==
    IF i >= 40 THEN found
    ELSE IF SpriteOnLine(m, line, i)
         THEN IF Len(found) + 1 >= 10
              THEN Append(found, i)
              ELSE FindSprites(m, line, i + 1, Append(found, i))
         ELSE FindSprites(m, line, i + 1, found)

\* The sort key: the X byte of OAM entry i
SpriteKey(m, i) == ReadByte(m, 65024 + i * 4 + 1)

RECURSIVE InsertByKey(_, _, _)
\* i inserted into the key-sorted list s after every entry whose key is <= its own
InsertByKey(m, s, i) ==
    IF s = << >> THEN <<i>>
    ELSE IF SpriteKey(m, Head(s)) <= SpriteKey(m, i)
         THEN <<Head(s)>> \o InsertByKey(m, Tail(s), i)
         ELSE <<i>> \o s

RECURSIVE SortByKey(_, _, _)
\* list.sort(key=...): a stable sort of s, the first k entries already placed in acc
SortByKey(m, s, acc) ==
    IF s = << >> THEN acc ELSE SortByKey(m, Tail(s), InsertByKey(m, acc, Head(s)))

\* PPU._render_sprites_line: the sprites it goes on to render, in order
RenderSpritesLine(m, line) ==
    IF Bit(GetIoRegister(m, 65344), 1) = 0     \* not obj_enabled (LCDC bit 1)
    THEN << >>
    ELSE SortByKey(m, FindSprites(m, line, 0, << >>), << >>)

\* The Y bytes and LCDC values the OAM is filled with, and the scanlines drawn
SpriteYs == {0, 16, 20, 32}
SpriteLcdcs == {145, 147, 151}            \* 0x91 (sprites off), 0x93 (8), 0x97 (16)
SpriteLines == {0, 3, 4, 11, 12, 19, 20, 31, 143}

\* LCDC is written and the pattern of the OAM is chosen: Y is ya for every
\* step-th entry and yb for the others, X descends with the index or is constant
SpriteSetup(step, ya, yb, descending, lcdc) ==
    /\ last_op.op = "none"
    /\ memory' = WriteByte(memory, 65344, lcdc)
    /\ last_op' = [op |-> "oam", rr |-> "", a |-> 0, v |-> ya, w |-> yb, n |-> step,
                   d |-> descending, sel |-> << >>]
    /\ UNCHANGED <<registers, machine_vars, last_write>>

\* write_byte of the Y and the X byte of the next OAM entry
SpriteWrite ==
    /\ last_op.op = "oam"
    /\ last_op.a < 40
    /\ memory' = WriteByte(WriteByte(memory, 65024 + last_op.a * 4,
                                     IF last_op.a % last_op.n = 0 THEN last_op.v
                                                                  ELSE last_op.w),
                           65024 + last_op.a * 4 + 1,
                           IF last_op.d THEN 80 - last_op.a ELSE 8)
    /\ last_op' = [last_op EXCEPT !.a = last_op.a + 1]
    /\ UNCHANGED <<registers, machine_vars, last_write>>

\* _render_sprites_line(line) once the OAM is filled
SpriteSelect(line) ==
    /\ last_op.op = "oam"
    /\ last_op.a = 40
    /\ last_op' = [last_op EXCEPT !.op = "sprites", !.n = line,
                                  !.sel = RenderSpritesLine(memory, line)]
    /\ UNCHANGED <<memory, registers, machine_vars, last_write>>

NextSprites ==
    \/ \E step \in 1..3, ya \in SpriteYs, yb \in SpriteYs, descending \in BOOLEAN,
          lcdc \in SpriteLcdcs : SpriteSetup(step, ya, yb, descending, lcdc)
    \/ SpriteWrite
    \/ \E line \in SpriteLines : SpriteSelect(line)

SpecSprites == Init /\ [][NextSprites]_vars

-----------------------------------------------------------------------------
(* The boot ROM overlay on its own: a cartridge and a boot ROM are loaded, *)
(* then bytes are written on the bus.  last_op records the last write (a,  *)
(* v), the number of writes (n), and whether 0xFF50 has been written with  *)
(* a nonzero value (nonzero) and with a value whose bit 0 is set (odd).    *)

MaxBootWrites == 3

\* A 32 KiB MBC1 cartridge whose first 256 bytes are 2, 3, ..., 255, 0, 2
OverlayImage ==
    [len |-> 32768,
     data |-> [j \in {k \in 0..255 : ((k % 255) + 2) % 256 # 0} \cup {327} |->
                  IF j = 327 THEN 1 ELSE ((j % 255) + 2) % 256]]

\* A boot ROM of 256 bytes 1, 2, ..., 255, 1: no byte equals the cartridge's
OverlayBoot ==
    [present |-> TRUE, len |-> 256, data |-> [j \in 0..255 |-> (j % 255) + 1]]

\* 0xFF50, the MBC registers at 0x0000, 0x00FF and 0x2000, and 0xFF4F, 0xFF51
BootAddrs == {65360, 0, 255, 8192, 65359, 65361}
BootBytes == {0, 1, 2, 66}

\* Memory.load_rom, then Memory.load_boot_rom
BootLoad ==
    /\ last_op.op = "none"
    /\ memory' = LoadBootRom(MemoryLoadRom(memory, OverlayImage), OverlayBoot)
    /\ last_op' = [op |-> "boot", rr |-> "", a |-> 0, v |-> 0, w |-> 0, n |-> 0,
                   nonzero |-> FALSE, odd |-> FALSE]
    /\ UNCHANGED <<registers, machine_vars, last_write>>

\* Memory.write_byte once the boot ROM is loaded
BootWrite(a, v) ==
    /\ last_op.op \in {"boot", "write"}
    /\ last_op.n < MaxBootWrites
    /\ memory' = WriteByte(memory, a, v)
    /\ last_op' = [last_op EXCEPT !.op = "write", !.a = a, !.v = v,
                                  !.n = last_op.n + 1,
                                  !.nonzero = last_op.nonzero \/ (a = 65360 /\ v # 0),
                                  !.odd = last_op.odd \/ (a = 65360 /\ v % 2 = 1)]
    /\ UNCHANGED <<registers, machine_vars, last_write>>

NextBoot ==
    \/ BootLoad
    \/ \E a \in BootAddrs, v \in BootBytes : BootWrite(a, v)

SpecBoot == Init /\ [][NextBoot]_vars

-----------------------------------------------------------------------------
(* Control flow: a ROM whose entry point holds one of JP nn, JP cc,nn,     *)
(* CALL nn or HALT is loaded, the flags are assigned as test_cpu assigns   *)
(* them, and the CPU is stepped.  last_op records the number of steps (n), *)
(* the opcode of the last step (v) and of the one before (u), the cycles   *)
(* the last step returned (w), the registers before the last step (pre)    *)
(* and the registers before the most recent CALL (call, if called).        *)

MaxFlowSteps == 3

\* JP nn, JP NZ/Z/NC/C,nn, CALL nn, HALT
FlowOpcodes == {195, 194, 202, 210, 218, 205, 118}
FlowTargets == {336, 564, 16368}               \* 0x0150, 0x0234, 0x3FF0
FlowFlags == {0, 128, 16, 144}                 \* F: none, Z, C, Z and C

\* A 32 KiB image: at 0x0100 the opcode with operand nn (HALT ; INC BC for HALT),
\* and RET (0xC9) in the four bytes from nn on
FlowProgram(opcode, nn) ==
    LET code == IF opcode = 118 THEN <<118, 3>> ELSE <<opcode, nn % 256, nn \div 256>>
    IN  [len |-> 32768,
         data |-> [j \in {255 + k : k \in {i \in 1..Len(code) : code[i] # 0}}
                          \cup (nn..(nn + 3)) |->
                      IF j >= nn THEN 201 ELSE code[j - 255]]]

\* GameboyEmulator.load_rom, then the flags are assigned
FlowLoad(opcode, nn, f) ==
    /\ last_op.op = "none"
    /\ memory' = MemoryLoadRom(memory, FlowProgram(opcode, nn))
    /\ registers' = [registers EXCEPT !.pc = 256, !.sp = 65534, !.f = f]
    /\ last_op' = [op |-> "load", rr |-> "", a |-> nn, v |-> 0, u |-> 0, w |-> 0, n |-> 0,
                   pre |-> registers, called |-> FALSE, call |-> registers]
    /\ UNCHANGED <<machine_vars, last_write>>

\* CPU.step
FlowStep ==
    /\ last_op.op \in {"load", "step"}
    /\ last_op.n < MaxFlowSteps
    /\ \E c \in {CpuStep([r |-> registers, m |-> memory, ime |-> ime], halted)} :
       \E opcode \in {ReadByte(memory, registers.pc)} :
          /\ registers' = c.r
          /\ memory' = c.m
          /\ c.ime = ime
          /\ last_op' = [last_op EXCEPT !.op = "step", !.u = last_op.v, !.v = opcode,
                                        !.w = c.cycles, !.n = last_op.n + 1,
                                        !.pre = registers,
                                        !.called = last_op.called \/ opcode = 205,
                                        !.call = IF opcode = 205 THEN registers
                                                                 ELSE last_op.call]
    /\ UNCHANGED <<machine_vars, last_write>>

NextFlow ==
    \/ \E opcode \in FlowOpcodes, nn \in FlowTargets, f \in FlowFlags :
          FlowLoad(opcode, nn, f)
    \/ FlowStep

SpecFlow == Init /\ [][NextFlow]_vars

-----------------------------------------------------------------------------
(* The joypad port: the window presses and releases keys, the CPU writes   *)
(* P1 on the bus, and the tick loop calls _handle_input.  last_op records  *)
(* the most recent value written to P1 (v).                                *)

\* The Game Boy keys behind bits 0..3 of each half
PadDirections == <<"right", "left", "up", "down">>
PadButtons == <<"a", "b", "select", "start">>
PadKeys == {PadDirections[k] : k \in 1..4} \cup {PadButtons[k] : k \in 1..4}

\* The selection values the CPU writes: directions, buttons, both, none
PadSelections == {32, 16, 0, 48}

IsDirection(button) == button \in {"up", "down", "left", "right"}

\* Joypad.key_press, for the keyboard key mapped to `button`
PadKeyPress(button) ==
    /\ joypad' = IF IsDirection(button)
                 THEN [joypad EXCEPT !.directions_pressed = @ \cup {button}]
                 ELSE [joypad EXCEPT !.buttons_pressed = @ \cup {button}]
    /\ memory' = UpdateJoypadRegister(joypad', memory)
    /\ UNCHANGED <<registers, ime, halted, ppu, timer, apu, emu, at, raised, ev, obs,
                   last_op, last_write>>

\* Joypad.key_release
PadKeyRelease(button) ==
    /\ joypad' = IF IsDirection(button)
                 THEN [joypad EXCEPT !.directions_pressed = @ \ {button}]
                 ELSE [joypad EXCEPT !.buttons_pressed = @ \ {button}]
    /\ memory' = UpdateJoypadRegister(joypad', memory)
    /\ UNCHANGED <<registers, ime, halted, ppu, timer, apu, emu, at, raised, ev, obs,
                   last_op, last_write>>

\* Memory.write_byte(0xFF00, value), as the CPU's store instructions call it
PadWrite(value) ==
    /\ memory' = WriteByte(memory, 65280, value)
    /\ last_op' = [NoOp EXCEPT !.op = "p1", !.a = 65280, !.v = value]
    /\ UNCHANGED <<registers, machine_vars, last_write>>

\* GameboyEmulator._handle_input, as each tick-loop iteration calls it
PadHandleInput ==
    /\ memory' = HandleInput(joypad, memory)
    /\ UNCHANGED <<registers, machine_vars, last_op, last_write>>

NextPad ==
    \/ \E button \in PadKeys : PadKeyPress(button)
    \/ \E button \in PadKeys : PadKeyRelease(button)
    \/ \E value \in PadSelections : PadWrite(value)
    \/ PadHandleInput

SpecPad == Init /\ [][NextPad]_vars

-----------------------------------------------------------------------------
(* Cartridge header checksum (src/core/cartridge.py): a Cartridge is built *)
(* from a ROM image and validate_checksum is called.  last_op records the  *)
(* image (img) and the returned value (w: 1 for True, 0 for False).        *)

\* Mutant: the running checksum subtracts the byte only.
RECURSIVE HeaderChecksum_NoCarry(_, _, _)
HeaderChecksum_NoCarry(data, i, checksum) ==
    IF i >= 333 THEN checksum
    ELSE HeaderChecksum_NoCarry(data, i + 1, (checksum - Rd(data, i)) % 256)

RECURSIVE HeaderChecksum(_, _, _)
\* The loop "for i in range(0x134, 0x14D)" of validate_checksum, from index i on
HeaderChecksum(data, i, checksum) ==
    IF i >= 333 THEN checksum
    ELSE HeaderChecksum(data, i + 1, (checksum - Rd(data, i) - 1) % 256)

\* Cartridge.validate_checksum; header['header_checksum'] is rom_data[0x14D]
ValidateChecksum(img) ==
    IF img.len < 336 THEN FALSE
    ELSE HeaderChecksum(img.data, 308, 0) = Rd(img.data, 333)

\* Header bytes tried at 0x134, 0x13F and 0x14C; the cartridge type is 0x01
CartBytes == {0, 1, 128, 255}

CartImage(b1, b2, b3, ck) ==
    [len |-> 336,
     data |-> [j \in {308, 319, 327, 332, 333} |->
                  CASE j = 308 -> b1 [] j = 319 -> b2 [] j = 327 -> 1
                    [] j = 332 -> b3 [] j = 333 -> ck]]

\* Cartridge(rom_data).validate_checksum()
CartValidate(img) ==
    /\ last_op.op = "none"
    /\ \E rom_data \in {img} :
          last_op' = [op |-> "checksum", rr |-> "", a |-> 0, v |-> 0, n |-> 0,
                      w |-> IF ValidateChecksum(rom_data) THEN 1 ELSE 0,
                      img |-> rom_data]
    /\ UNCHANGED <<memory, registers, machine_vars, last_write>>

NextCart ==
    /\ last_op.op = "none"
    /\ \/ \E b1 \in CartBytes, b2 \in CartBytes, b3 \in CartBytes, ck \in 0..255 :
             CartValidate(CartImage(b1, b2, b3, ck))
       \/ CartValidate(ShortImage)

SpecCart == Init /\ [][NextCart]_vars

-----------------------------------------------------------------------------
(* Bank switching: a 64 KiB cartridge of some MBC kind is loaded, then     *)
(* bytes and words are written on the bus.  last_op records the cartridge  *)
(* type byte (w), the number of writes (n), the last write (a, v, word),   *)
(* the last value written to 2000-3FFF (bank, -1 if none) and what the     *)
(* last write to 0000-1FFF asked of the RAM-enable latch (latch).          *)

MaxMbcWrites == 3

\* Cartridge types: ROM only, MBC1, MBC2, MBC3, MBC5, and an unlisted one
MbcCodes == {0, 1, 5, 17, 25, 255}
MbcOffsets == {0, 1, 16383}

\* A 64 KiB image: byte 17 * (bank + 1) + offset % 7 at each of three offsets
\* of each of the four banks, the cartridge type at 0x147
MbcImage(code) ==
    [len |-> 65536,
     data |-> [j \in {bank * 16384 + o : bank \in 0..3, o \in MbcOffsets}
                      \cup (IF code = 0 THEN {} ELSE {327}) |->
                  IF j = 327 THEN code
                  ELSE 17 * ((j \div 16384) + 1) + ((j % 16384) % 7)]]

MbcAddrs == {0, 8192, 16383, 16384, 24576, 32767, 40960, 49151}
MbcBytes == {0, 2, 10, 35}
MbcWordAddrs == {16383, 32767}
MbcWords == {2563, 522}                    \* 0x0A03, 0x020A

\* What one byte written at address a adds to the recorded history
MbcTrack(h, a, v) ==
    IF a < 8192 THEN [h EXCEPT !.latch = IF v % 16 = 10 THEN "on" ELSE "off"]
    ELSE IF a < 16384 THEN [h EXCEPT !.bank = v]
    ELSE h

\* Memory.load_rom
MbcLoad(code) ==
    /\ last_op.op = "none"
    /\ memory' = MemoryLoadRom(memory, MbcImage(code))
    /\ last_op' = [op |-> "load", rr |-> "", a |-> 0, v |-> 0, w |-> code, n |-> 0,
                   word |-> FALSE, bank |-> -1, latch |-> "none"]
    /\ UNCHANGED <<registers, machine_vars, last_write>>

\* Memory.write_byte
MbcWriteByte(a, v) ==
    /\ last_op.op \in {"load", "write"}
    /\ last_op.n < MaxMbcWrites
    /\ memory' = WriteByte(memory, a, v)
    /\ last_op' = [MbcTrack(last_op, a, v) EXCEPT !.op = "write", !.a = a, !.v = v,
                                                  !.word = FALSE, !.n = last_op.n + 1]
    /\ UNCHANGED <<registers, machine_vars, last_write>>

\* Memory.write_word
MbcWriteWord(a, v) ==
    /\ last_op.op \in {"load", "write"}
    /\ last_op.n < MaxMbcWrites
    /\ memory' = WriteWord(memory, a, v)
    /\ last_op' = [MbcTrack(MbcTrack(last_op, a, v % 256), a + 1, v \div 256)
                     EXCEPT !.op = "write", !.a = a, !.v = v,
                            !.word = TRUE, !.n = last_op.n + 1]
    /\ UNCHANGED <<registers, machine_vars, last_write>>

NextMbc ==
    \/ \E code \in MbcCodes : MbcLoad(code)
    \/ \E a \in MbcAddrs, v \in MbcBytes : MbcWriteByte(a, v)
    \/ \E a \in MbcWordAddrs, v \in MbcWords : MbcWriteWord(a, v)

SpecMbc == Init /\ [][NextMbc]_vars

-----------------------------------------------------------------------------
(* TIMA over whole periods: the timer registers are written first, then    *)
(* Timer.step is called with the cycles of 16- and 24-cycle instructions   *)
(* until TIMA has had time to overflow.  last_op records the last write    *)
(* (a, v) or the cycles of the last step (v), the number of writes         *)
(* (writes), the cycles stepped so far (total), and TIMA and IF before the *)
(* last step (tima0, if0).                                                 *)

MaxTimaCycles == 8208
MaxTimaWrites == 3

TimaTicks == {16, 24}

\* TAC = 4 (on, 4096 cycles), 7 (on, 16384 cycles), 0 (off); TIMA; TMA
TimaWrites ==
    {<<65287, 4>>, <<65287, 7>>, <<65287, 0>>, <<65285, 255>>, <<65285, 254>>,
     <<65286, 16>>}

\* Memory.write_byte on a timer register, before the first step
TimaWrite(a, v) ==
    /\ last_op.op \in {"none", "write"}
    /\ last_op.n < MaxTimaWrites
    /\ memory' = WriteByte(memory, a, v)
    /\ last_op' = [op |-> "write", rr |-> "", a |-> a, v |-> v, w |-> 0,
                   n |-> last_op.n + 1, total |-> 0, tima0 |-> 0, if0 |-> 0]
    /\ UNCHANGED <<registers, machine_vars, last_write>>

\* Timer.step(cycles)
TimaTick(cycles) ==
    /\ last_op.op \in {"write", "tick"}
    /\ last_op.total + cycles <= MaxTimaCycles
    /\ \E s \in {TimerStep(timer, memory, cycles)} :
          /\ timer' = s.t
          /\ memory' = s.m
    /\ last_op' = [last_op EXCEPT !.op = "tick", !.a = 0, !.v = cycles,
                                  !.total = last_op.total + cycles,
                                  !.tima0 = Rd(memory.io, 5),
                                  !.if0 = Rd(memory.io, 15)]
    /\ UNCHANGED <<registers, ime, halted, ppu, apu, joypad, emu, at, raised, ev, obs,
                   last_write>>

NextTima ==
    \/ \E w \in TimaWrites : TimaWrite(w[1], w[2])
    \/ \E cycles \in TimaTicks : TimaTick(cycles)

SpecTima == Init /\ [][NextTima]_vars

-----------------------------------------------------------------------------
(* Single instructions in context: a ROM holding a short program at 0x0100 *)
(* is loaded, the registers are assigned as test_cpu assigns them, and the *)
(* CPU is stepped.  last_op records the number of steps (n), the opcode    *)
(* the last step fetched (v) and the byte after it (u), the cycles the     *)
(* step returned (w), and the registers, IME and memory before the step    *)
(* (pre, ime0, mem).                                                       *)

MaxOpsSteps == 5

\* Bytes without an entry in the opcode table: 0x10, 0x76, 0xC4, 0xD3, 0xFA
OpsUnknown == {16, 118, 196, 211, 250}

\* LD SP,0xFFFF ; INC SP -- LD SP,0 ; DEC SP -- LD SP,0 ; PUSH BC --
\* LD SP,0 ; CALL 0x0150 -- JP 0xFFFC
OpsWrapCodes ==
    {<<49, 255, 255, 51>>, <<49, 0, 0, 59>>, <<49, 0, 0, 197>>,
     <<49, 0, 0, 205, 80, 1>>, <<195, 252, 255>>}

\* Operand number k of BIT has its bits 0..k set: B, C, D, E, H, L,
\* (HL) = (0x1F3F), A
OpsBitRegisters(f) ==
    [NewRegisters EXCEPT !.b = 1, !.c = 3, !.d = 7, !.e = 15, !.h = 31, !.l = 63,
                         !.a = 255, !.f = f, !.pc = 256, !.sp = 65534]

OpsPlainRegisters == [NewRegisters EXCEPT !.pc = 256, !.sp = 65534]

\* A 32 KiB image with the code at 0x0100 and 0x7F at 0x1F3F
OpsImage(code) ==
    [len |-> 32768,
     data |-> [j \in {255 + k : k \in {i \in 1..Len(code) : code[i] # 0}} \cup {7999} |->
                  IF j = 7999 THEN 127 ELSE code[j - 255]]]

\* GameboyEmulator.load_rom, then the registers are assigned
OpsLoad(code, r) ==
    /\ last_op.op = "none"
    /\ memory' = MemoryLoadRom(memory, OpsImage(code))
    /\ registers' = r
    /\ last_op' = [op |-> "load", rr |-> "", a |-> 0, v |-> 0, u |-> 0, w |-> 0, n |-> 0,
                   pre |-> r, ime0 |-> ime, mem |-> memory']
    /\ UNCHANGED <<machine_vars, last_write>>

\* CPU.step
OpsStep ==
    /\ last_op.op \in {"load", "step"}
    /\ last_op.n < MaxOpsSteps
    /\ \E c \in {CpuStep([r |-> registers, m |-> memory, ime |-> ime], halted)} :
          /\ registers' = c.r
          /\ memory' = c.m
          /\ ime' = c.ime
          /\ last_op' = [last_op EXCEPT !.op = "step",
                                        !.v = ReadByte(memory, registers.pc),
                                        !.u = ReadByte(memory, registers.pc + 1),
                                        !.w = c.cycles, !.n = last_op.n + 1,
                                        !.pre = registers, !.ime0 = ime, !.mem = memory]
    /\ UNCHANGED <<halted, ppu, timer, apu, joypad, emu, at, raised, ev, obs, last_write>>

NextOps ==
    \/ \E opcode \in OpsUnknown : OpsLoad(<<opcode, 80, 1>>, OpsPlainRegisters)
    \/ \E cb \in 64..127, f \in {0, 240} : OpsLoad(<<203, cb>>, OpsBitRegisters(f))
    \/ \E code \in OpsWrapCodes : OpsLoad(code, OpsPlainRegisters)
    \/ OpsStep

SpecOps == Init /\ [][NextOps]_vars

-----------------------------------------------------------------------------
(* The IF and IE bytes: while the machine runs a ROM, interrupts are        *)
(* requested through the interrupt handler and bytes are written to 0xFF0F *)
(* and 0xFFFF on the bus between iterations of the tick loop.  last_op     *)
(* records the last write (a, v), the number of requests and writes (n),   *)
(* the bit of the last request (bit, -1 if none), its value in IF before   *)
(* the request (was) and the cycle count at the request (since).           *)

MaxLatchOps == 2
MaxLatchCycles == 48

\* LD HL,0xFF0F ; LD (HL),0x04 ; JP 0x0105
IfProgram == Program(<<33, 15, 255, 54, 4, 195, 5, 1>>)

LatchImages == {AfProgram, EiProgram, IfProgram}
LatchBytes == {0, 4, 31, 229}                  \* 0x00 0x04 0x1F 0xE5

\* GameboyEmulator.load_rom
LatchLoad(img) ==
    /\ last_op.op = "none"
    /\ at = "idle" /\ ~emu.running
    /\ memory' = MemoryLoadRom(memory, img)
    /\ registers' = [registers EXCEPT !.pc = 256, !.sp = 65534]
    /\ last_op' = [op |-> "load", a |-> 0, v |-> 0, n |-> 0, bit |-> -1, was |-> 0,
                   since |-> 0]
    /\ UNCHANGED <<machine_vars, last_write>>

\* Memory.write_byte to IF or IE
LatchWrite(a, v) ==
    /\ last_op.op # "none"
    /\ last_op.n < MaxLatchOps
    /\ memory' = WriteByte(memory, a, v)
    /\ last_op' = [last_op EXCEPT !.op = "write", !.a = a, !.v = v, !.n = last_op.n + 1]
    /\ UNCHANGED <<registers, machine_vars, last_write>>

\* InterruptHandler.request_interrupt
LatchRequest(name) ==
    /\ last_op.op # "none"
    /\ last_op.n < MaxLatchOps
    /\ memory' = RequestInterrupt(memory, name)
    /\ \E b \in {InterruptBit(InterruptVector(name))} :
          last_op' = [last_op EXCEPT !.op = "request", !.n = last_op.n + 1, !.bit = b,
                                     !.was = Bit(Rd(memory.io, 15), b),
                                     !.since = emu.cycle_count]
    /\ UNCHANGED <<registers, machine_vars, last_write>>

\* One iteration of the run_frame loop
LatchIterate ==
    /\ last_op.op # "none"
    /\ emu.cycle_count < MaxLatchCycles
    /\ Iterate

NextLatch ==
    \/ \E img \in LatchImages : LatchLoad(img)
    \/ Start
    \/ RunFrameEnter
    \/ LatchIterate
    \/ \E a \in {65295, 65535}, v \in LatchBytes : LatchWrite(a, v)
    \/ \E k \in 1..Len(InterruptNames) : LatchRequest(InterruptNames[k])

SpecLatch == Init /\ [][NextLatch]_vars

-----------------------------------------------------------------------------
(* The control calls of GameboyEmulator: run(), pause(), resume() and      *)
(* stop() are called, also while a run_frame call is in its loop (from the *)
(* window's handlers), and run_frame is called.  last_op records the last  *)
(* control call (op), the number of control calls (n), the number of       *)
(* time.sleep calls of the paused loop (sleeps), and, from stop() until    *)
(* the next run(), that the emulator was stopped (stopped) and whether it  *)
(* was running when stop() was called (was_running).                       *)

MaxCtlCalls == 3
MaxCtlCycles == 48
MaxCtlSleeps == 2

CtlImages == {LoopProgram, EiProgram}

\* GameboyEmulator.load_rom
CtlLoad(img) ==
    /\ last_op.op = "none"
    /\ at = "idle" /\ ~emu.running
    /\ memory' = MemoryLoadRom(memory, img)
    /\ registers' = [registers EXCEPT !.pc = 256, !.sp = 65534]
    /\ last_op' = [op |-> "load", n |-> 0, sleeps |-> 0, stopped |-> FALSE,
                   was_running |-> FALSE]
    /\ UNCHANGED <<machine_vars, last_write>>

\* A control call changes the flags of the emulator and nothing else
CtlCall(name, e, stopped) ==
    /\ last_op.op # "none"
    /\ last_op.n < MaxCtlCalls
    /\ emu' = e
    /\ last_op' = [last_op EXCEPT !.op = name, !.n = last_op.n + 1, !.stopped = stopped,
                                  !.was_running = emu.running]
    /\ UNCHANGED <<memory, registers, ime, halted, ppu, timer, apu, joypad, at, raised, ev,
                   obs, last_write>>

\* GameboyEmulator.run: running = True
CtlRun == at = "idle" /\ CtlCall("run", [emu EXCEPT !.running = TRUE], FALSE)

\* GameboyEmulator.pause
CtlPause == CtlCall("pause", [emu EXCEPT !.paused = TRUE], last_op.stopped)

\* GameboyEmulator.resume
CtlResume == CtlCall("resume", [emu EXCEPT !.paused = FALSE], last_op.stopped)

\* GameboyEmulator.stop
CtlStop == CtlCall("stop", [emu EXCEPT !.running = FALSE, !.paused = FALSE], TRUE)

\* One iteration of the run_frame loop while not paused
CtlIterate ==
    /\ last_op.op # "none"
    /\ emu.cycle_count < MaxCtlCycles
    /\ Iterate

\* One iteration of the run_frame loop while paused: time.sleep(0.01) ; continue
CtlSleep ==
    /\ at = "loop" /\ emu.paused
    /\ emu.frame_cycles < 70224
    /\ last_op.sleeps < MaxCtlSleeps
    /\ last_op' = [last_op EXCEPT !.sleeps = last_op.sleeps + 1]
    /\ UNCHANGED <<memory, registers, machine_vars, last_write>>

NextCtl ==
    \/ \E img \in CtlImages : CtlLoad(img)
    \/ CtlRun
    \/ CtlPause
    \/ CtlResume
    \/ CtlStop
    \/ RunFrameRefused
    \/ RunFrameEnter
    \/ CtlIterate
    \/ CtlSleep

SpecCtl == Init /\ [][NextCtl]_vars

-----------------------------------------------------------------------------
(* The PPU and the bus: PPU.step is called with the cycles of 16- and      *)
(* 24-cycle instructions, and between the steps bytes are written on the   *)
(* bus to LCDC, VRAM and OAM.  last_op records the last write (a, v) and   *)
(* the byte read at a before it (old), the number of writes (n), the       *)
(* cycles stepped so far (total), the kind of the operation before the     *)
(* last one (prev) and the PPU before the last step or write (pre).        *)

MaxPpuCycles == 480
MaxPpuWrites == 2

PpuTicks == {16, 24}

\* LCDC = 0x11 (LCD off), LCDC = 0x91 (LCD on), VRAM 0x8000, OAM 0xFE00
PpuWrites == {<<65344, 17>>, <<65344, 145>>, <<32768, 66>>, <<65024, 66>>}

\* PPU.step(cycles)
PpuTick(cycles) ==
    /\ \E before \in {IF last_op.op = "none"
                      THEN [a |-> 0, v |-> 0, old |-> 0, n |-> 0, total |-> 0]
                      ELSE last_op} :
          /\ before.total + cycles <= MaxPpuCycles
          /\ last_op' = [op |-> "tick", prev |-> last_op.op, a |-> before.a,
                         v |-> before.v, old |-> before.old, n |-> before.n,
                         total |-> before.total + cycles, pre |-> ppu]
    /\ \E s \in {PpuStep(ppu, memory, cycles)} :
          /\ ppu' = s.p
          /\ memory' = s.m
    /\ UNCHANGED <<registers, ime, halted, timer, apu, joypad, emu, at, raised, ev, obs,
                   last_write>>

\* Memory.write_byte between two steps of the PPU
PpuWrite(a, v) ==
    /\ last_op.op # "none"
    /\ last_op.n < MaxPpuWrites
    /\ memory' = WriteByte(memory, a, v)
    /\ last_op' = [last_op EXCEPT !.op = "write", !.prev = last_op.op, !.a = a, !.v = v,
                                  !.old = ReadByte(memory, a),
                                  !.n = last_op.n + 1, !.pre = ppu]
    /\ UNCHANGED <<registers, machine_vars, last_write>>

NextPpu ==
    \/ \E cycles \in PpuTicks : PpuTick(cycles)
    \/ \E w \in PpuWrites : PpuWrite(w[1], w[2])

SpecPpu == Init /\ [][NextPpu]_vars

-----------------------------------------------------------------------------
(* Claims about the register file and the bus.                             *)

RECURSIVE BitOrN(_, _, _)
\* x | y on the low n bits
BitOrN(x, y, n) ==
    IF n = 0 THEN 0
    ELSE (IF x % 2 = 1 \/ y % 2 = 1 THEN 1 ELSE 0) + 2 * BitOrN(x \div 2, y \div 2, n - 1)

\* C7: assigning a 16-bit value v to a register pair leaves v >> 8 in the high
\* register and v & 0xFF in the low register, and after assigning the two 8-bit
\* registers the pair reads (high << 8) | low; for AF, BC, DE and HL.
C7_PairAliasing ==
    /\ last_op.op = "set_pair" =>
          /\ registers[PairHigh(last_op.rr)] = last_op.v \div 256
          /\ registers[PairLow(last_op.rr)] = last_op.v % 256
    /\ last_op.op = "set_halves" =>
          GetPair(registers, last_op.rr) = BitOrN(last_op.v * 256, last_op.w, 16)

\* AF was assigned 0xABCD, then B and C were assigned 0x42 and 0xFF.
C7_Witness ==
    /\ last_op.op = "set_halves" /\ last_op.rr = "bc"
    /\ last_op.v = 66 /\ last_op.w = 255
    /\ GetBC(registers) = 17151
    /\ registers.a = 171 /\ registers.f = 205

\* C8 as stated: read_byte(a) returns the value of the most recent write_byte
\* whose target address was a, for a in VRAM, work RAM and high RAM.
C8_ReadsLastWrite ==
    \A a \in DOMAIN last_write.addr :
        (InVram(a) \/ InWram(a) \/ InHram(a)) =>
            ReadByte(memory, a) = last_write.addr[a]

\* C8 amended: read_byte(a) returns the value of the most recent write_byte
\* whose target address was a or, for a in C000-DDFF, its echo a + 0x2000.
C8_ReadsLastWriteOrEcho ==
    \A a \in DOMAIN last_write.cell :
        (InVram(a) \/ InWram(a) \/ InHram(a)) =>
            ReadByte(memory, a) = last_write.cell[a]

\* 0x42 was written to 0xC000, then 0xFF to its echo 0xE000; 0xC000 reads 0xFF.
C8_Witness ==
    /\ last_op.op = "write_byte" /\ last_op.a = 57344 /\ last_op.v = 255
    /\ 49152 \in DOMAIN last_write.addr
    /\ last_write.addr[49152] = 66
    /\ ReadByte(memory, 49152) = 255

\* C9: write_word(a, v) with a and a+1 in work RAM stores v & 0xFF at a and
\* v >> 8 at a+1, and read_word(a) then returns v.
C9_WordLittleEndian ==
    (last_op.op = "write_word" /\ InWram(last_op.a) /\ InWram(last_op.a + 1)) =>
        /\ Rd(memory.wram, last_op.a - 49152) = last_op.v % 256
        /\ Rd(memory.wram, last_op.a + 1 - 49152) = last_op.v \div 256
        /\ ReadByte(memory, last_op.a) = last_op.v % 256
        /\ ReadByte(memory, last_op.a + 1) = last_op.v \div 256
        /\ ReadWord(memory, last_op.a) = last_op.v

\* write_word(0xC000, 0x1234) was called: 0x34 is at 0xC000 and 0x12 at 0xC001.
C9_Witness ==
    /\ last_op.op = "write_word" /\ last_op.a = 49152 /\ last_op.v = 4660
    /\ ReadByte(memory, 49152) = 52
    /\ ReadByte(memory, 49153) = 18

-----------------------------------------------------------------------------
(* Claims about the running machine.                                       *)

\* C1: no call to CPU.step or run_frame raises an exception, from any
\* reachable state.
C1_NeverRaises == raised = "None"

Min(S) == CHOOSE x \in S : \A y \in S : x <= y

\* C2: when the interrupt handler runs with IME set and IF & IE & 0x1F nonzero
\* (IE being the byte at 0xFFFF), it clears IME, clears exactly the
\* highest-priority pending IF bit, lowers SP by 2, stores the PC at the new SP
\* and sets PC to that interrupt's vector.
C2_Dispatch ==
    (ev.iterated /\ ev.handled /\ ev.due) =>
        LET bit == Min(ev.before.pending)
        IN  /\ ev.after.ime = FALSE
            /\ ev.after.iflags = ClearBit(ev.before.iflags, bit)
            /\ ev.after.regs.sp = ev.before.regs.sp - 2
            /\ ev.after.top = ev.before.regs.pc
            /\ ev.after.regs.pc = InterruptVector(InterruptNames[bit + 1])

\* C3: with the LCD on, the cycles returned by CPU.step between two consecutive
\* entries of the PPU into VBlank sum to exactly 70,224, whatever the
\* instructions executed.
C3_FrameLength == obs.entries >= 2 => obs.between = 70224

\* C4: the VBlank bit of IF is requested exactly once for each entry of the PPU
\* into line 144, and at no other moment of the tick loop.
C4_VblankOncePerEntry ==
    ev.iterated => ev.vblank_requests = (IF ev.vblank_entry THEN 1 ELSE 0)

\* C5: the byte read at 0xFF44 (LY) is the PPU's current scanline.
C5_LyFollowsLine == ReadByte(memory, 65348) = ppu.line

\* C6: after any instruction, POP AF and an assignment to AF included, the low
\* four bits of F are zero.
C6_FLowNibbleZero == registers.f % 16 = 0

PushOpcode(rr) == CASE rr = "bc" -> 197 [] rr = "de" -> 213 [] rr = "hl" -> 229 [] rr = "af" -> 245

PopOpcode(rr) == CASE rr = "bc" -> 193 [] rr = "de" -> 209 [] rr = "hl" -> 225 [] rr = "af" -> 241

\* C10: PUSH rr immediately followed by POP rr leaves rr and SP as they were
\* before the PUSH; for AF the low four bits of F are zero afterwards.
C10_PushPop ==
    \A rr \in Pairs :
        (ev.iterated /\ obs.prev.stepped
         /\ obs.prev.opcode = PushOpcode(rr) /\ ev.opcode = PopOpcode(rr)) =>
            /\ GetPair(ev.before.regs, rr) = GetPair(obs.prev.regs, rr)
            /\ ev.before.regs.sp = obs.prev.regs.sp
            /\ (rr = "af" => ev.before.regs.f % 16 = 0)

-----------------------------------------------------------------------------
(* Claims about single CPU steps.                                          *)

\* C11: with the ROM bytes 0x3E, n at 0x0100-0x0101 and PC = 0x0100, one step
\* sets A = n, leaves PC = 0x0102 and returns 8 cycles, for every byte n.
C11_LdAImmediate ==
    (last_op.op = "step" /\ last_op.rr = "rom" /\ last_op.v = 62) =>
        /\ registers.a = last_op.n
        /\ registers.pc = 258
        /\ last_op.w = 8

\* C12: on a fresh Memory and CPU, after write_byte(0x0100, 0x3E),
\* write_byte(0x0101, n) and PC = 0x0100, one step returns a positive cycle
\* count and leaves A = n, for every byte n.
C12_WrittenProgramRuns ==
    (last_op.op = "step" /\ last_op.rr = "write") =>
        /\ last_op.w > 0
        /\ registers.a = last_op.n

-----------------------------------------------------------------------------
(* Claims about run_frame and the host interface.                          *)

\* C13: each call to run_frame made while the emulator is running advances the
\* machine until the PPU enters VBlank and then returns: exactly one VBlank
\* entry happens in the call, the call ends at that entry, and the value it
\* returns is the number of T-cycles elapsed in the frame.  (obs.result is the
\* returned Python value as an integer: True is 1, False is 0.)
C13_FramePerCall ==
    (at = "idle" /\ obs.call = "returned") =>
        /\ obs.call_entries = 1
        /\ obs.since_entry = 0
        /\ obs.result = emu.frame_cycles

\* C14: get_state() returns, without raising, a dictionary that contains at
\* least the keys 'running' and 'frame_count', in every emulator state and in
\* particular right after reset().
C14_GetState ==
    last_op.op = "get_state" =>
        /\ last_op.rr = "None"
        /\ {"running", "frame_count"} \subseteq last_op.keys

\* C15: load_rom fails, leaving the machine as it was, exactly when the image
\* is shorter than 0x150 bytes or its cartridge-type byte names no supported
\* MBC; an image of at least 0x150 bytes with a known MBC loads, whatever its
\* header checksum (which load_rom never reads).
C15_LoadRomFailure ==
    [][\A img \in HostImages, boot \in BootFiles :
          HostLoadRom(img, boot) =>
              /\ (last_op'.w = 0) <=>
                     (img.len < 336 \/ DetectMbcType(img.data) = "UNKNOWN")
              /\ last_op'.w = 0 => (memory' = memory /\ registers' = registers /\ ime' = ime)]_vars

\* The post-boot register values: A=0x01 F=0xB0 BC=0x0013 DE=0x00D8 HL=0x014D
\* SP=0xFFFE PC=0x0100
PostBootRegisters(r) ==
    /\ r.a = 1 /\ r.f = 176
    /\ GetBC(r) = 19 /\ GetDE(r) = 216 /\ GetHL(r) = 333
    /\ r.sp = 65534 /\ r.pc = 256

\* C16: after reset(), from any reachable state, frame_count and cycle_count
\* are 0 and, with no boot ROM loaded, the CPU registers hold the post-boot
\* defaults (PC = 0 when a boot ROM is loaded).
C16_ResetDefaults ==
    [][HostReset =>
          /\ emu'.frame_count = 0 /\ emu'.cycle_count = 0
          /\ IF memory'.boot_loaded THEN registers'.pc = 0
                                    ELSE PostBootRegisters(registers')]_vars

-----------------------------------------------------------------------------
(* Claims about the timer.                                                 *)

\* The T-cycles per TIMA increment for TAC[1:0] = 0, 1, 2, 3
TimaPeriod(clock_select) ==
    CASE clock_select = 0 -> 1024
      [] clock_select = 1 -> 16
      [] clock_select = 2 -> 64
      [] clock_select = 3 -> 256

RECURSIVE TimaAfter(_, _, _)
\* TIMA after k increments, reloading TMA on overflow
TimaAfter(tima, tma, k) ==
    IF k = 0 THEN tima
    ELSE TimaAfter(IF tima = 255 THEN tma ELSE tima + 1, tma, k - 1)

\* C17: with TAC bit 2 set, TIMA is incremented once every 1024, 16, 64 or 256
\* T-cycles of timer stepping for TAC[1:0] = 0, 1, 2, 3; with TAC = 0x05,
\* TIMA = 0xFF and TMA = 0x10, after 16 T-cycles TIMA = 0x10 and IF bit 2 is set.
C17_TimaRate ==
    (last_op.op = "tick" /\ last_op.aligned /\ Bit(Rd(memory.io, 7), 2) = 1) =>
        LET k == last_op.n \div TimaPeriod(Rd(memory.io, 7) % 4)
        IN  /\ Rd(memory.io, 5) = TimaAfter(last_op.tima0, Rd(memory.io, 6), k)
            /\ last_op.tima0 + k > 255 => Bit(Rd(memory.io, 15), 2) = 1

\* C18: a write of any value to 0xFF04 resets DIV completely: DIV reads 0 for
\* the next 255 T-cycles of timer stepping and 1 from 256 T-cycles after the write.
C18_DivReset ==
    (last_op.op \in {"write", "tick"} /\ last_op.d >= 0) =>
        ReadByte(memory, 65284) = (last_op.d \div 256) % 256

-----------------------------------------------------------------------------
(* Claims about sprite selection.                                          *)

\* The OAM entries that cover the scanline
SpritesMatching(m, line) == {i \in 0..39 : SpriteOnLine(m, line, i)}

\* The first ten of them in OAM order
FirstTenMatching(m, line) ==
    {i \in SpritesMatching(m, line) :
        Cardinality({j \in SpritesMatching(m, line) : j < i}) < 10}

\* C19: for every OAM content, scanline and sprite height, sprite selection
\* yields at most 10 sprites, and they are the first matching entries in OAM order.
C19_SpriteLimit ==
    last_op.op = "sprites" =>
        /\ Len(last_op.sel) <= 10
        /\ Cardinality({last_op.sel[k] : k \in 1..Len(last_op.sel)}) = Len(last_op.sel)
        /\ Bit(GetIoRegister(memory, 65344), 1) = 1 =>
              {last_op.sel[k] : k \in 1..Len(last_op.sel)}
                  = FirstTenMatching(memory, last_op.n)

\* Fourteen 16-pixel sprites (every third OAM entry) cover scanline 12; the
\* first ten of them, entries 0..27, are selected, drawn in order of X.
C19_Witness ==
    /\ last_op.op = "sprites" /\ last_op.n = 12
    /\ ObjSize(memory) = 16
    /\ Cardinality(SpritesMatching(memory, 12)) = 14
    /\ last_op.sel = <<27, 24, 21, 18, 15, 12, 9, 6, 3, 0>>

-----------------------------------------------------------------------------
(* Claims about the boot ROM overlay.                                      *)

\* Every read of 0x0000-0x00FF returns the boot ROM's byte
ReadsBootRom == \A a \in 0..255 : ReadByte(memory, a) = OverlayBoot.data[a]

\* Every read of 0x0000-0x00FF returns the byte of cartridge ROM bank 0
ReadsCartridge == \A a \in 0..255 : ReadByte(memory, a) = Rd(OverlayImage.data, a)

\* C20: with a boot ROM loaded, reads of 0x0000-0x00FF return boot-ROM bytes
\* exactly as long as no nonzero value has been written to 0xFF50; after the
\* first nonzero write they return cartridge ROM bank 0, whatever is written later.
C20_OverlayUntilNonzero ==
    last_op.op \in {"boot", "write"} =>
        IF last_op.nonzero THEN ReadsCartridge ELSE ReadsBootRom

\* C20, amended: with a boot ROM loaded, reads of 0x0000-0x00FF return boot-ROM
\* bytes exactly as long as no value with bit 0 set has been written to 0xFF50;
\* after the first such write they return cartridge ROM bank 0, whatever is
\* written later.
C20_OverlayUntilBit0 ==
    last_op.op \in {"boot", "write"} =>
        IF last_op.odd THEN ReadsCartridge ELSE ReadsBootRom

\* 0xFF50 was written with bit 0 set and then with 0: the cartridge is still read
C20_Witness ==
    /\ last_op.op = "write" /\ last_op.n >= 2
    /\ last_op.odd
    /\ last_op.a = 65360 /\ last_op.v = 0
    /\ ReadsCartridge /\ ~ReadsBootRom

-----------------------------------------------------------------------------
(* Claims about EI.                                                        *)

\* C21: after EI executes with IME = 0, IME is still false when the tick-loop
\* iteration that executed EI ends, so that no interrupt can be dispatched
\* before the instruction that follows EI; DI leaves IME false at once.
C21_EiDelayed ==
    [][/\ (Iterate /\ ~ime /\ ReadByte(memory, registers.pc) = 251) => ~ime'
       /\ (Iterate /\ ReadByte(memory, registers.pc) = 243) => ~ime']_vars

-----------------------------------------------------------------------------
(* Claims about HALT and control transfers.                                *)

\* C22: once HALT has executed the CPU is halted, and as long as IF & IE is
\* zero each step returns 4 cycles and changes no register.
C22_HaltedUntilPending ==
    /\ (last_op.op = "step" /\ last_op.v = 118) => halted
    /\ (last_op.op = "step" /\ last_op.u = 118 /\ Pending(memory) = {}) =>
           /\ last_op.w = 4
           /\ registers = last_op.pre

\* The operand nn of the instruction the last step executed
FlowOperand == ReadWord(memory, last_op.pre.pc + 1)

\* The condition of JP cc,nn, evaluated on the flags before the step
FlowTaken ==
    CASE last_op.v = 194 -> ~FlagZ(last_op.pre)
      [] last_op.v = 202 -> FlagZ(last_op.pre)
      [] last_op.v = 210 -> ~FlagC(last_op.pre)
      [] last_op.v = 218 -> FlagC(last_op.pre)
      [] OTHER -> TRUE

\* C30: after one step of JP nn, of a taken JP cc,nn (16 cycles) or of CALL nn,
\* PC equals nn; a not-taken JP cc,nn advances PC by 3 and returns 12; CALL
\* pushes the address of the instruction that follows it, and a later RET sets
\* PC to that address and restores SP to its value before the CALL.
C30_TransfersLand ==
    last_op.op = "step" =>
        /\ last_op.v = 195 => registers.pc = FlowOperand
        /\ (last_op.v \in {194, 202, 210, 218} /\ FlowTaken) =>
               registers.pc = FlowOperand /\ last_op.w = 16
        /\ (last_op.v \in {194, 202, 210, 218} /\ ~FlowTaken) =>
               registers.pc = last_op.pre.pc + 3 /\ last_op.w = 12
        /\ last_op.v = 205 =>
               /\ registers.pc = FlowOperand
               /\ registers.sp = last_op.pre.sp - 2
               /\ ReadWord(memory, registers.sp) = last_op.pre.pc + 3
        /\ (last_op.v = 201 /\ last_op.called) =>
               /\ registers.pc = last_op.call.pc + 3
               /\ registers.sp = last_op.call.sp

-----------------------------------------------------------------------------
(* Claims about the joypad port.                                           *)

\* C23: once the CPU has written P1, a held direction key reads as 0 in its bit
\* (right 0, left 1, up 2, down 3) if the last write had bit 4 = 0, a held
\* button reads as 0 in its bit (A 0, B 1, select 2, start 3) if it had
\* bit 5 = 0, every other low-nibble bit reads as 1, and bits 4-5 read back
\* as written.
C23_P1Reads ==
    last_op.op = "p1" =>
        LET p1 == ReadByte(memory, 65280)
        IN  /\ \A b \in 0..3 :
                  Bit(p1, b) = 0 <=>
                     \/ Bit(last_op.v, 4) = 0
                        /\ PadDirections[b + 1] \in joypad.directions_pressed
                     \/ Bit(last_op.v, 5) = 0
                        /\ PadButtons[b + 1] \in joypad.buttons_pressed
            /\ Bit(p1, 4) = Bit(last_op.v, 4)
            /\ Bit(p1, 5) = Bit(last_op.v, 5)

-----------------------------------------------------------------------------
(* Claims about the cartridge header.                                      *)

RECURSIVE ComplementSum(_, _)
\* The sum of the 8-bit complements of the bytes i..0x14C of the image
ComplementSum(data, i) ==
    IF i > 332 THEN 0 ELSE (255 - Rd(data, i)) + ComplementSum(data, i + 1)

-----------------------------------------------------------------------------
(* Claims about bank switching.                                            *)

C26_Mbc1BankRead ==
    (last_op.op \in {"load", "write"} /\ last_op.w = 1) =>
        LET b == IF last_op.bank = -1 \/ last_op.bank % 32 = 0 THEN 1
                 ELSE last_op.bank % 32
        IN  /\ memory.rom_bank = b
            /\ \A o \in MbcOffsets :
                  ReadByte(memory, 16384 + o) = Rd(MbcImage(1).data, b * 16384 + o)

\* C27: on an MBC1 cartridge, after a write to 0000-1FFF of a value whose low
\* nibble is 0xA a byte written to cartridge RAM is read back, and as long as
\* the last write to 0000-1FFF had another value (or there was none) reads of
\* A000-BFFF return 0xFF.
C27_RamEnableLatch ==
    (last_op.op = "write" /\ last_op.w = 1) =>
        /\ (last_op.latch = "on" /\ ~last_op.word /\ last_op.a \in {40960, 49151}) =>
               ReadByte(memory, last_op.a) = last_op.v
        /\ last_op.latch # "on" =>
               \A a \in {40960, 49151} : ReadByte(memory, a) = 255

-----------------------------------------------------------------------------
(* Claims about echo RAM.                                                  *)

\* The echo addresses looked at: both ends of E000-FDFF and 0xE001
EchoAddrs == {57344, 57345, 65023}

\* C28: for every address e in E000-FDFF, after any sequence of writes
\* read_byte(e) equals read_byte(e - 0x2000), and a byte written to either
\* address is read at both.
C28_EchoMirrors ==
    /\ \A e \in EchoAddrs : ReadByte(memory, e) = ReadByte(memory, e - 8192)
    /\ \A e \in EchoAddrs :
          (last_op.op = "write_byte" /\ last_op.a \in {e, e - 8192}) =>
              /\ ReadByte(memory, e) = last_op.v
              /\ ReadByte(memory, e - 8192) = last_op.v
    /\ \A e \in EchoAddrs :
          (last_op.op = "write_word" /\ last_op.a \in {e, e - 8192}) =>
              /\ ReadByte(memory, e) = last_op.v % 256
              /\ ReadByte(memory, e - 8192) = last_op.v % 256

\* 0x42 was written to 0xFDFF and is read at 0xDDFF; 0xE000 and 0xC000 hold
\* another byte written before
C28_Witness ==
    /\ last_op.op = "write_byte" /\ last_op.a = 65023 /\ last_op.v = 66
    /\ ReadByte(memory, 56831) = 66
    /\ ReadByte(memory, 57344) = 255 /\ ReadByte(memory, 49152) = 255

-----------------------------------------------------------------------------
(* Claims about TIMA.                                                      *)

\* C29: a step of the enabled timer that increments TIMA (its cycle counter
\* passes the period) while TIMA is 0xFF sets TIMA to TMA and sets IF bit 2;
\* every other increment adds exactly 1 to TIMA and leaves IF; a step that
\* does not increment, and every step while TAC bit 2 is 0, changes neither
\* TIMA nor IF.
C29_TimaOverflow ==
    [][last_op'.op = "tick" =>
          LET tima == Rd(memory.io, 5)
              enabled == Bit(Rd(memory.io, 7), 2) = 1
              incremented == enabled /\
                  timer'.tima_counter # timer.tima_counter + last_op'.v
          IN  IF ~incremented
              THEN /\ Rd(memory'.io, 5) = tima
                   /\ Rd(memory'.io, 15) = Rd(memory.io, 15)
              ELSE IF tima = 255
              THEN /\ Rd(memory'.io, 5) = Rd(memory.io, 6)
                   /\ Rd(memory'.io, 15) = SetBit(Rd(memory.io, 15), 2)
              ELSE /\ Rd(memory'.io, 5) = tima + 1
                   /\ Rd(memory'.io, 15) = Rd(memory.io, 15)]_vars

\* TIMA was 0xFF with TMA = 0x10 and IF bit 2 clear; the last step reloaded
\* TIMA with 0x10 and set IF bit 2
C29_Witness ==
    /\ last_op.op = "tick"
    /\ last_op.tima0 = 255 /\ Bit(last_op.if0, 2) = 0
    /\ Rd(memory.io, 6) = 16
    /\ Rd(memory.io, 5) = 16
    /\ Bit(Rd(memory.io, 15), 2) = 1

-----------------------------------------------------------------------------
(* Claims about single instructions.                                       *)

\* The registers of r with the cycle count of r0
SameCycles(r, r0) == [r EXCEPT !.cycles = r0.cycles]

\* C31: a step that fetches a byte without an entry in the opcode table
\* returns 4 cycles, advances PC by exactly 1 and changes no other register,
\* flag, IME or memory byte.
C31_UnknownIsNop ==
    (last_op.op = "step" /\ last_op.v \in OpsUnknown) =>
        /\ last_op.w = 4
        /\ SameCycles(registers, last_op.pre) =
              [last_op.pre EXCEPT !.pc = last_op.pre.pc + 1]
        /\ ime = last_op.ime0
        /\ memory = last_op.mem

\* C35: after every step PC and SP are in 0..0xFFFF: INC SP at 0xFFFF gives 0,
\* DEC SP at 0 gives 0xFFFF, PUSH and CALL at SP = 0 give 0xFFFE, and a
\* one-byte instruction at 0xFFFF leaves PC at 0.
C35_SixteenBit ==
    last_op.op = "step" =>
        /\ registers.pc \in 0..65535
        /\ registers.sp \in 0..65535
        /\ (last_op.v = 51 /\ last_op.pre.sp = 65535) => registers.sp = 0
        /\ (last_op.v = 59 /\ last_op.pre.sp = 0) => registers.sp = 65535
        /\ (last_op.v \in {197, 205} /\ last_op.pre.sp = 0) => registers.sp = 65534
        /\ (last_op.v = 0 /\ last_op.pre.pc = 65535) => registers.pc = 0

\* The operands of BIT in the order of the opcode's low three bits
BitOperands == <<"b", "c", "d", "e", "h", "l", "(hl)", "a">>

\* The value of operand number r (0..7) in registers rs and memory m
BitOperand(rs, m, r) ==
    IF r = 6 THEN ReadByte(m, GetHL(rs)) ELSE rs[BitOperands[r + 1]]

\* C37: the step that executes CB-prefixed opcode 0x40 + 8*b + r sets Z to the
\* complement of bit b of operand r, clears N, sets H, leaves C, the operand
\* and every other register unchanged, and advances PC by exactly 2.
C37_BitTest ==
    (last_op.op = "step" /\ last_op.v = 203 /\ last_op.u \in 64..127) =>
        LET b == (last_op.u - 64) \div 8
            r == (last_op.u - 64) % 8
            operand == BitOperand(last_op.pre, last_op.mem, r)
        IN  /\ Bit(registers.f, 7) = 1 - Bit(operand, b)
            /\ Bit(registers.f, 6) = 0
            /\ Bit(registers.f, 5) = 1
            /\ Bit(registers.f, 4) = Bit(last_op.pre.f, 4)
            /\ BitOperand(registers, memory, r) = operand
            /\ registers.pc = last_op.pre.pc + 2

-----------------------------------------------------------------------------
(* Claims about the order of a tick-loop iteration.                        *)

\* C32: an iteration of the run_frame loop advances the timer, then the PPU
\* (on the memory the timer left), then the APU, each once and by the cycles
\* cpu.step returned; the interrupts pending with IME set once the three have
\* advanced are dispatched before the iteration ends, so that the next
\* instruction is fetched at the vector of the highest-priority one.
C32_StepThenDispatch ==
    [][Iterate =>
          LET c == CpuStep([r |-> registers, m |-> memory, ime |-> ime], halted)
              t == TimerStep(timer, c.m, c.cycles)
              p == PpuStep(ppu, t.m, c.cycles)
              a == ApuStep(apu, c.cycles)
          IN  /\ timer' = t.t
              /\ ppu' = p.p
              /\ apu' = a.a
              /\ emu'.frame_cycles = emu.frame_cycles + c.cycles
              /\ (c.ime /\ Pending(p.m) # {}) =>
                    /\ ~ime'
                    /\ registers'.pc =
                          InterruptVector(InterruptNames[Min(Pending(p.m)) + 1])]_vars

-----------------------------------------------------------------------------
(* Claims about the IF and IE bytes.                                       *)

\* C33: a bit of IF that is set stays set over every step of the machine but
\* a write to 0xFF0F (on the bus or by the instruction the step executes) and
\* the dispatch of that bit's interrupt; and right after a byte is written to
\* 0xFF0F or to 0xFFFF that address reads the byte.
C33_IfLatched ==
    [][LET c == CpuStep([r |-> registers, m |-> memory, ime |-> ime], halted)
           written == last_op'.op = "write" /\ last_op'.n # last_op.n
       IN  /\ \A b \in 0..4 :
                 (Bit(Rd(memory.io, 15), b) = 1 /\ Bit(Rd(memory'.io, 15), b) = 0) =>
                    \/ written /\ last_op'.a = 65295
                    \/ Iterate /\ Rd(c.m.io, 15) # Rd(memory.io, 15)
                    \/ Iterate /\ c.ime /\ ~ime'
                       /\ registers'.pc = InterruptVector(InterruptNames[b + 1])
           /\ written => ReadByte(memory', last_op'.a) = last_op'.v]_vars

\* TIMER was requested while its bit was clear, the loop has run for 24 cycles
\* or more since, 0x1F has just been written to IE, and IF bit 2 is still set
C33_Witness ==
    /\ last_op.op = "write" /\ last_op.a = 65535 /\ last_op.v = 31
    /\ last_op.bit = 2 /\ last_op.was = 0
    /\ emu.cycle_count >= last_op.since + 24
    /\ Bit(ReadByte(memory, 65295), 2) = 1
    /\ ReadByte(memory, 65535) = 31

-----------------------------------------------------------------------------
(* Claims about stop().                                                    *)

\* C34: once stop() has been called (and run() not since), a call of
\* run_frame does not enter its loop: it returns False and leaves the
\* registers, the memory, IME, the PPU, the APU, the timer and the frame and
\* cycle counters as they were.
C34_StoppedRefuses ==
    [][(last_op.op # "none" /\ last_op.stopped /\ (RunFrameEnter \/ RunFrameRefused)) =>
          /\ at' = "idle"
          /\ obs'.call = "refused" /\ obs'.result = 0
          /\ UNCHANGED <<registers, memory, ime, halted, ppu, apu, timer, emu>>]_vars

\* stop() was called while the emulator was running, the call of run_frame
\* that was in progress has ended, and a later call has been refused
C34_Witness ==
    /\ last_op.op = "stop" /\ last_op.stopped /\ last_op.was_running
    /\ emu.cycle_count > 0
    /\ at = "idle" /\ obs.call = "refused"

-----------------------------------------------------------------------------
(* Claims about the termination of run_frame.                              *)

\* C40: whatever the running and paused flags, every iteration of the
\* run_frame loop adds at least 4 cycles to the frame's cycle count, so that
\* the count reaches the 70,224 target and the call returns.
C40_EveryIterationAdvances ==
    [][(CtlIterate \/ CtlSleep) => emu'.frame_cycles >= emu.frame_cycles + 4]_vars

-----------------------------------------------------------------------------
(* Claims about the PPU.                                                   *)

\* C36: a byte written to VRAM while the PPU is in mode 3, or to OAM while it
\* is in mode 2 or 3, is not stored (the address reads what it read before);
\* written in the other modes, it is stored.
C36_WritesBlocked ==
    (last_op.op = "write" /\ last_op.a \in {32768, 65024}) =>
        LET blocked == IF last_op.a = 32768 THEN ppu.mode = 3 ELSE ppu.mode \in {2, 3}
        IN  ReadByte(memory, last_op.a) = IF blocked THEN last_op.old ELSE last_op.v

\* C38: after a step of the PPU made with LCDC bit 7 clear the PPU is on line
\* 0 in mode 0; the first step made after bit 7 is set again finds the mode
\* machine restarted, on line 0 in mode 2.
C38_LcdOffResets ==
    /\ (last_op.op = "tick" /\ Bit(ReadByte(memory, 65344), 7) = 0) =>
           ppu.line = 0 /\ ppu.mode = 0
    /\ (last_op.op = "tick" /\ last_op.prev = "write" /\ last_op.a = 65344
        /\ Bit(last_op.old, 7) = 0 /\ Bit(last_op.v, 7) = 1) =>
           ppu.line = 0 /\ ppu.mode = 2

\* A PPU state on a scanline 0..153, in a mode 0..3, and in mode 1 exactly on
\* the scanlines 144..153
PpuWellFormed(p) ==
    /\ p.line \in 0..153
    /\ p.mode \in 0..3
    /\ p.mode = 1 <=> p.line \in 144..153

\* C39: every state of the PPU is on a scanline 0..153, in a mode 0..3, and in
\* mode 1 exactly on the scanlines 144..153; a step of the machine changes the
\* mode at most once, from 2 to 3, from 3 to 0, from 0 to 2, from 0 to 1 (on
\* entering line 144, the entry that fires the frame callback) or from 1 to 2
\* (on wrapping to line 0).
C39_ModeMachine ==
    [][/\ PpuWellFormed(ppu)
       /\ PpuWellFormed(ppu')
       /\ ppu'.mode # ppu.mode =>
             /\ <<ppu.mode, ppu'.mode>> \in {<<2, 3>>, <<3, 0>>, <<0, 2>>, <<0, 1>>, <<1, 2>>}
             /\ <<ppu.mode, ppu'.mode>> = <<0, 1>> => ppu'.line = 144 /\ ev'.vblank_entry
             /\ <<ppu.mode, ppu'.mode>> = <<1, 2>> => ppu'.line = 0
       /\ ev'.vblank_entry /\ ev' # ev => <<ppu.mode, ppu'.mode>> = <<0, 1>>]_vars

\* The PPU has gone through lines 1..153 and has wrapped to line 0, mode 2
C39_Witness ==
    /\ ppu.line = 0 /\ ppu.mode = 2
    /\ emu.cycle_count > 65664
    /\ obs.entries >= 1

=============================================================================
